---- MODULE Spec2Model ----
(***************************************************************************)
(* Model of the index-addressed batch mutation engine of google-docs-mcp:  *)
(*   - the editTableCell tool (src/tools/docs/editTableCell.ts), which     *)
(*     turns one cell edit into an ordered list of Docs requests;          *)
(*   - the Sheets helpers and tools (src/googleSheetsApiHelpers.ts,        *)
(*     src/tools/sheets/*.ts), which resolve a sheet title to a sheet id,  *)
(*     parse A1 texts and submit batchUpdate requests.                     *)
(* Texts are sequences of one-character strings, so that parsing is        *)
(* computed character by character as the regular expressions do.          *)
(***************************************************************************)
EXTENDS Integers, Sequences, FiniteSets, TLC

\* ------------------------------------------------------------------------
\* Bounds of the model
\* ------------------------------------------------------------------------
MinCellStart == 9
MaxCellStart == 11
MaxCellLen == 5

\* ------------------------------------------------------------------------
\* Calls of the pure helper functions
\* ------------------------------------------------------------------------
VARIABLES
  fnCall,   \* the helper function last called and its argument
  fnResult  \* what that call returned or threw

pvars == <<fnCall, fnResult>>

\* ------------------------------------------------------------------------
\* The Apps Script project and the updateAppsScriptFile invocations
\* ------------------------------------------------------------------------
VARIABLES
  scriptRemote,   \* the files of the remote script project, in order
  updatesStarted, \* number of updateAppsScriptFile invocations started so far
  upc,            \* position of each invocation: idle, read, write, done
  uArgs,          \* the arguments of each invocation
  uContent,       \* the files each invocation's getScriptContent returned
  uFiles,         \* the updatedFiles list each invocation hands to updateScriptContent
  uResult         \* what each invocation returned or threw

avars == <<scriptRemote, updatesStarted, upc, uArgs, uContent, uFiles, uResult>>

\* ------------------------------------------------------------------------
\* Generic helpers
\* ------------------------------------------------------------------------
SeqToSet(s) == {s[i] : i \in 1..Len(s)}

\* ========================================================================
\* Part 1: editTableCell (Docs)
\* ========================================================================

VARIABLES
  dpc,        \* position of the editTableCell handler: idle, range, submit, done
  dArgs,      \* the arguments of the invocation in flight
  dCell,      \* cellRange returned by getTableCellRange
  dNewEnd,    \* the handler's local newTextEnd
  dRequests,  \* the handler's local requests list
  dSubmitted, \* batches handed to executeBatchUpdateWithSplitting in this invocation
  dResult     \* what the invocation returned or threw

dvars == <<dpc, dArgs, dCell, dNewEnd, dRequests, dSubmitted, dResult>>

\* textContent: optional string. given = FALSE models undefined.
NoTextContent == [given |-> FALSE, chars |-> <<>>]
TextContents ==
  { NoTextContent,
    [given |-> TRUE, chars |-> <<>>],
    [given |-> TRUE, chars |-> <<"a", "b", "c">>],
    [given |-> TRUE, chars |-> <<"n", "e", "w", "t", "e", "x", "t", "8">>] }

\* textStyle / paragraphStyle: optional objects. "absent" is undefined, "empty"
\* is an object without any style attribute, "set" carries an attribute.
StyleArgs == {"absent", "empty", "set"}

EditArgs == [textContent : TextContents, textStyle : StyleArgs, paragraphStyle : StyleArgs]

NoArgs == [textContent |-> NoTextContent, textStyle |-> "absent", paragraphStyle |-> "absent"]

\* The cell content ranges getTableCellRange can return: start <= end, and
\* the range has zero length when the cell is empty.
CellRanges ==
  { [startIndex |-> s, endIndex |-> s + l] : s \in MinCellStart..MaxCellStart, l \in 0..MaxCellLen }

NoCell == [startIndex |-> 0, endIndex |-> 0]

DeleteContentRange(s, e) ==
  [kind |-> "deleteContentRange", startIndex |-> s, endIndex |-> e, text |-> <<>>]

InsertText(s, chars) ==
  [kind |-> "insertText", startIndex |-> s, endIndex |-> s, text |-> chars]

\* GDocsHelpers.buildUpdateTextStyleRequest(startIndex, endIndex, style):
\* null when the style has no attribute, else the request over [start, end).
buildUpdateTextStyleRequest(s, e, style) ==
  IF style = "set"
    THEN << [kind |-> "updateTextStyle", startIndex |-> s, endIndex |-> e, text |-> <<>>] >>
    ELSE << >>

\* GDocsHelpers.buildUpdateParagraphStyleRequest(startIndex, endIndex, style)
buildUpdateParagraphStyleRequest(s, e, style) ==
  IF style = "set"
    THEN << [kind |-> "updateParagraphStyle", startIndex |-> s, endIndex |-> e, text |-> <<>>] >>
    ELSE << >>

\* --- mutants of the request construction (used by the checks below) ------
EditPlanDeleteEmpty(cellRange, args) ==
  LET s == cellRange.startIndex
      e == cellRange.endIndex
      t == args.textContent
      del == IF t.given /\ e >= s THEN <<DeleteContentRange(s, e)>> ELSE <<>>
      ins == IF t.given /\ Len(t.chars) > 0 THEN <<InsertText(s, t.chars)>> ELSE <<>>
      newTextEnd == IF t.given THEN s + Len(t.chars) ELSE e
      sty == IF args.textStyle # "absent" /\ newTextEnd > s
               THEN buildUpdateTextStyleRequest(s, newTextEnd, args.textStyle) ELSE <<>>
      paraEnd == IF t.given THEN newTextEnd + 1 ELSE e + 1
      par == IF args.paragraphStyle # "absent" /\ newTextEnd >= s
               THEN buildUpdateParagraphStyleRequest(s, paraEnd, args.paragraphStyle) ELSE <<>>
  IN [requests |-> del \o ins \o sty \o par, newTextEnd |-> newTextEnd]

EditPlanInsertFirst(cellRange, args) ==
  LET s == cellRange.startIndex
      e == cellRange.endIndex
      t == args.textContent
      del == IF t.given /\ e > s THEN <<DeleteContentRange(s, e)>> ELSE <<>>
      ins == IF t.given /\ Len(t.chars) > 0 THEN <<InsertText(s, t.chars)>> ELSE <<>>
      newTextEnd == IF t.given THEN s + Len(t.chars) ELSE e
      sty == IF args.textStyle # "absent" /\ newTextEnd > s
               THEN buildUpdateTextStyleRequest(s, newTextEnd, args.textStyle) ELSE <<>>
      paraEnd == IF t.given THEN newTextEnd + 1 ELSE e + 1
      par == IF args.paragraphStyle # "absent" /\ newTextEnd >= s
               THEN buildUpdateParagraphStyleRequest(s, paraEnd, args.paragraphStyle) ELSE <<>>
  IN [requests |-> ins \o del \o sty \o par, newTextEnd |-> newTextEnd]

EditPlanStyleFirst(cellRange, args) ==
  LET s == cellRange.startIndex
      e == cellRange.endIndex
      t == args.textContent
      del == IF t.given /\ e > s THEN <<DeleteContentRange(s, e)>> ELSE <<>>
      ins == IF t.given /\ Len(t.chars) > 0 THEN <<InsertText(s, t.chars)>> ELSE <<>>
      newTextEnd == IF t.given THEN s + Len(t.chars) ELSE e
      sty == IF args.textStyle # "absent" /\ newTextEnd > s
               THEN buildUpdateTextStyleRequest(s, newTextEnd, args.textStyle) ELSE <<>>
      paraEnd == IF t.given THEN newTextEnd + 1 ELSE e + 1
      par == IF args.paragraphStyle # "absent" /\ newTextEnd >= s
               THEN buildUpdateParagraphStyleRequest(s, paraEnd, args.paragraphStyle) ELSE <<>>
  IN [requests |-> del \o sty \o ins \o par, newTextEnd |-> newTextEnd]

EditPlanStyleOldEnd(cellRange, args) ==
  LET s == cellRange.startIndex
      e == cellRange.endIndex
      t == args.textContent
      del == IF t.given /\ e > s THEN <<DeleteContentRange(s, e)>> ELSE <<>>
      ins == IF t.given /\ Len(t.chars) > 0 THEN <<InsertText(s, t.chars)>> ELSE <<>>
      newTextEnd == IF t.given THEN s + Len(t.chars) ELSE e
      sty == IF args.textStyle # "absent" /\ e > s
               THEN buildUpdateTextStyleRequest(s, e, args.textStyle) ELSE <<>>
      paraEnd == IF t.given THEN newTextEnd + 1 ELSE e + 1
      par == IF args.paragraphStyle # "absent" /\ newTextEnd >= s
               THEN buildUpdateParagraphStyleRequest(s, paraEnd, args.paragraphStyle) ELSE <<>>
  IN [requests |-> del \o ins \o sty \o par, newTextEnd |-> newTextEnd]

EditPlanParaNoDelimiter(cellRange, args) ==
  LET s == cellRange.startIndex
      e == cellRange.endIndex
      t == args.textContent
      del == IF t.given /\ e > s THEN <<DeleteContentRange(s, e)>> ELSE <<>>
      ins == IF t.given /\ Len(t.chars) > 0 THEN <<InsertText(s, t.chars)>> ELSE <<>>
      newTextEnd == IF t.given THEN s + Len(t.chars) ELSE e
      sty == IF args.textStyle # "absent" /\ newTextEnd > s
               THEN buildUpdateTextStyleRequest(s, newTextEnd, args.textStyle) ELSE <<>>
      paraEnd == IF t.given THEN newTextEnd ELSE e + 1
      par == IF args.paragraphStyle # "absent" /\ newTextEnd >= s
               THEN buildUpdateParagraphStyleRequest(s, paraEnd, args.paragraphStyle) ELSE <<>>
  IN [requests |-> del \o ins \o sty \o par, newTextEnd |-> newTextEnd]

\* editTableCell.execute, lines 57-108: the requests list and newTextEnd
\* computed from the resolved cell range and the arguments.
EditTableCellPlan(cellRange, args) ==
  LET s == cellRange.startIndex
      e == cellRange.endIndex
      t == args.textContent
      del == IF t.given /\ e > s THEN <<DeleteContentRange(s, e)>> ELSE <<>>
      ins == IF t.given /\ Len(t.chars) > 0 THEN <<InsertText(s, t.chars)>> ELSE <<>>
      newTextEnd == IF t.given THEN s + Len(t.chars) ELSE e
      sty == IF args.textStyle # "absent" /\ newTextEnd > s
               THEN buildUpdateTextStyleRequest(s, newTextEnd, args.textStyle) ELSE <<>>
      paraEnd == IF t.given THEN newTextEnd + 1 ELSE e + 1
      par == IF args.paragraphStyle # "absent" /\ newTextEnd >= s
               THEN buildUpdateParagraphStyleRequest(s, paraEnd, args.paragraphStyle) ELSE <<>>
  IN [requests |-> del \o ins \o sty \o par, newTextEnd |-> newTextEnd]

NeverNoChanges(requests) == FALSE

\* editTableCell.execute, line 110: the no-op test on the built list.
NoChangesSpecified(requests) == Len(requests) = 0

\* ------------------------------------------------------------------------
\* The document the requests address
\* ------------------------------------------------------------------------
\* The document is a sequence of characters; the character at index i is
\* element i + 1. Each character of the document before the edit carries
\* the index it had, each inserted one its position in the inserted text.
DocumentLength == MaxCellStart + MaxCellLen + 3

DocumentBefore ==
  [p \in 1..DocumentLength |-> [from |-> "document", at |-> p - 1, ch |-> ""]]

InsertedChars(chars) ==
  [k \in 1..Len(chars) |-> [from |-> "text", at |-> k, ch |-> chars[k]]]

\* One request applied to the document: deleteContentRange removes the
\* characters at [startIndex, endIndex), insertText puts the text before the
\* character at its index, and style requests leave the characters alone.
ApplyDocRequest(doc, req) ==
  CASE req.kind = "deleteContentRange" ->
         SubSeq(doc, 1, req.startIndex) \o SubSeq(doc, req.endIndex + 1, Len(doc))
    [] req.kind = "insertText" ->
         SubSeq(doc, 1, req.startIndex) \o InsertedChars(req.text)
           \o SubSeq(doc, req.startIndex + 1, Len(doc))
    [] OTHER -> doc

\* The requests of a batch are applied in their order.
RECURSIVE ApplyDocRequests(_, _)
ApplyDocRequests(doc, reqs) ==
  IF reqs = <<>> THEN doc ELSE ApplyDocRequests(ApplyDocRequest(doc, Head(reqs)), Tail(reqs))

\* ========================================================================
\* Part 2: Sheets helpers (src/googleSheetsApiHelpers.ts) and Sheets tools
\* ========================================================================

\* ------------------------------------------------------------------------
\* Characters and texts
\* ------------------------------------------------------------------------
UpperLetters ==
  << "A", "B", "C", "D", "E", "F", "G", "H", "I", "J", "K", "L", "M",
     "N", "O", "P", "Q", "R", "S", "T", "U", "V", "W", "X", "Y", "Z" >>

LowerLetters ==
  << "a", "b", "c", "d", "e", "f", "g", "h", "i", "j", "k", "l", "m",
     "n", "o", "p", "q", "r", "s", "t", "u", "v", "w", "x", "y", "z" >>

DigitChars == << "0", "1", "2", "3", "4", "5", "6", "7", "8", "9" >>

IsUpper(c) == \E i \in 1..26 : UpperLetters[i] = c
IsLower(c) == \E i \in 1..26 : LowerLetters[i] = c

\* [A-Z] under the i flag
IsLetter(c) == IsUpper(c) \/ IsLower(c)

\* \d
IsDigit(c) == \E i \in 1..10 : DigitChars[i] = c

\* String.prototype.charCodeAt after toUpperCase(), for the characters of
\* the model's texts.
UpperCharCode(c) ==
  CASE IsUpper(c) -> 64 + (CHOOSE i \in 1..26 : UpperLetters[i] = c)
    [] IsLower(c) -> 64 + (CHOOSE i \in 1..26 : LowerLetters[i] = c)
    [] IsDigit(c) -> 47 + (CHOOSE i \in 1..10 : DigitChars[i] = c)
    [] c = " " -> 32
    [] c = "!" -> 33
    [] c = "$" -> 36
    [] c = "'" -> 39
    [] c = ":" -> 58
    [] OTHER -> 63

\* parseInt(digits, 10) on a run of decimal digits
RECURSIVE ParseIntFrom(_, _)
ParseIntFrom(digits, acc) ==
  IF digits = <<>> THEN acc
  ELSE ParseIntFrom(Tail(digits), acc * 10 + (UpperCharCode(Head(digits)) - 48))

parseInt(digits) == ParseIntFrom(digits, 0)

\* First index >= i of t that holds no letter (Len(t) + 1 if none): the end
\* of the greedy match of [A-Z]* at i.
RECURSIVE LetterRunEnd(_, _)
LetterRunEnd(t, i) ==
  IF i <= Len(t) /\ IsLetter(t[i]) THEN LetterRunEnd(t, i + 1) ELSE i

\* The end of the greedy match of \d* at i.
RECURSIVE DigitRunEnd(_, _)
DigitRunEnd(t, i) ==
  IF i <= Len(t) /\ IsDigit(t[i]) THEN DigitRunEnd(t, i + 1) ELSE i

\* t[i..j-1]
Slice(t, i, j) == SubSeq(t, i, j - 1)

\* Index of the first occurrence of c in t at or after i, 0 if none.
RECURSIVE IndexOfFrom(_, _, _)
IndexOfFrom(t, c, i) ==
  IF i > Len(t) THEN 0
  ELSE IF t[i] = c THEN i ELSE IndexOfFrom(t, c, i + 1)

\* ------------------------------------------------------------------------
\* parseRange, colLettersToIndex, parseA1ToGridRange
\* ------------------------------------------------------------------------

\* sheetName.replace(/^'|'$/g, ''): one leading and one trailing quote removed
\* (a text that is a single quote loses it once).
StripQuotes(name) ==
  LET a == IF Len(name) > 0 /\ name[1] = "'" THEN Tail(name) ELSE name
  IN IF Len(a) > 0 /\ a[Len(a)] = "'" THEN SubSeq(a, 1, Len(a) - 1) ELSE a

\* parseRange(range): split at '!'. parts[0] is the text before the first
\* '!', parts[1] the text between the first and the second '!' (or the end).
\* named = FALSE stands for sheetName: null.
parseRange(range) ==
  LET b == IndexOfFrom(range, "!", 1)
  IN IF b = 0
       THEN [named |-> FALSE, sheetName |-> <<>>, a1Range |-> range]
       ELSE LET b2 == IndexOfFrom(range, "!", b + 1)
                stop == IF b2 = 0 THEN Len(range) + 1 ELSE b2
            IN [named |-> TRUE,
                sheetName |-> StripQuotes(Slice(range, 1, b)),
                a1Range |-> Slice(range, b + 1, stop)]

\* colLettersToIndex(col): base-26 decode of the upper-cased text, minus one.
RECURSIVE ColFold(_, _)
ColFold(col, acc) ==
  IF col = <<>> THEN acc
  ELSE ColFold(Tail(col), acc * 26 + (UpperCharCode(Head(col)) - 64))

colLettersToIndexOneBased(col) == ColFold(col, 0)

colLettersToIndex(col) == ColFold(col, 0) - 1

\* /^(\d+)(?::(\d+))?$/
RowOnlyMatch(t) ==
  LET d1 == DigitRunEnd(t, 1)
      d2 == DigitRunEnd(t, d1 + 1)
  IN IF d1 = 1 THEN [ok |-> FALSE, g1 |-> <<>>, has2 |-> FALSE, g2 |-> <<>>]
     ELSE IF d1 = Len(t) + 1
       THEN [ok |-> TRUE, g1 |-> Slice(t, 1, d1), has2 |-> FALSE, g2 |-> <<>>]
     ELSE IF t[d1] = ":" /\ d2 > d1 + 1 /\ d2 = Len(t) + 1
       THEN [ok |-> TRUE, g1 |-> Slice(t, 1, d1), has2 |-> TRUE, g2 |-> Slice(t, d1 + 1, d2)]
     ELSE [ok |-> FALSE, g1 |-> <<>>, has2 |-> FALSE, g2 |-> <<>>]

\* /^([A-Z]+)(?::([A-Z]+))?$/i
ColOnlyMatch(t) ==
  LET l1 == LetterRunEnd(t, 1)
      l2 == LetterRunEnd(t, l1 + 1)
  IN IF l1 = 1 THEN [ok |-> FALSE, g1 |-> <<>>, has2 |-> FALSE, g2 |-> <<>>]
     ELSE IF l1 = Len(t) + 1
       THEN [ok |-> TRUE, g1 |-> Slice(t, 1, l1), has2 |-> FALSE, g2 |-> <<>>]
     ELSE IF t[l1] = ":" /\ l2 > l1 + 1 /\ l2 = Len(t) + 1
       THEN [ok |-> TRUE, g1 |-> Slice(t, 1, l1), has2 |-> TRUE, g2 |-> Slice(t, l1 + 1, l2)]
     ELSE [ok |-> FALSE, g1 |-> <<>>, has2 |-> FALSE, g2 |-> <<>>]

NoStandardMatch ==
  [ok |-> FALSE, g1 |-> <<>>, g2 |-> <<>>, has3 |-> FALSE, g3 |-> <<>>, g4 |-> <<>>]

\* /^([A-Z]+)(\d+)(?::([A-Z]+)(\d+))?$/i
StandardMatch(t) ==
  LET l1 == LetterRunEnd(t, 1)
      d1 == DigitRunEnd(t, l1)
      l2 == LetterRunEnd(t, d1 + 1)
      d2 == DigitRunEnd(t, l2)
  IN IF l1 = 1 \/ d1 = l1 THEN NoStandardMatch
     ELSE IF d1 = Len(t) + 1
       THEN [ok |-> TRUE, g1 |-> Slice(t, 1, l1), g2 |-> Slice(t, l1, d1),
             has3 |-> FALSE, g3 |-> <<>>, g4 |-> <<>>]
     ELSE IF t[d1] = ":" /\ l2 > d1 + 1 /\ d2 > l2 /\ d2 = Len(t) + 1
       THEN [ok |-> TRUE, g1 |-> Slice(t, 1, l1), g2 |-> Slice(t, l1, d1),
             has3 |-> TRUE, g3 |-> Slice(t, d1 + 1, l2), g4 |-> Slice(t, l2, d2)]
     ELSE NoStandardMatch

parseA1ToGridRangeInclusive(a1Range, sheetId) ==
  LET r == RowOnlyMatch(a1Range)
      c == ColOnlyMatch(a1Range)
      m == StandardMatch(a1Range)
  IN IF r.ok
       THEN LET startRow == parseInt(r.g1) - 1
                endRow == IF r.has2 THEN parseInt(r.g2) - 1 ELSE startRow
            IN [ok |-> TRUE,
                range |-> [sheetId |-> sheetId, startRowIndex |-> startRow, endRowIndex |-> endRow]]
     ELSE IF c.ok
       THEN LET startCol == colLettersToIndex(c.g1)
                endCol == IF c.has2 THEN colLettersToIndex(c.g2) + 1 ELSE startCol + 1
            IN [ok |-> TRUE,
                range |-> [sheetId |-> sheetId, startColumnIndex |-> startCol,
                           endColumnIndex |-> endCol]]
     ELSE IF ~m.ok
       THEN [ok |-> FALSE, range |-> [sheetId |-> sheetId]]
     ELSE LET startCol == colLettersToIndex(m.g1)
              startRow == parseInt(m.g2) - 1
              endCol == IF m.has3 THEN colLettersToIndex(m.g3) + 1 ELSE startCol + 1
              endRow == IF m.has3 THEN parseInt(m.g4) ELSE startRow + 1
          IN [ok |-> TRUE,
              range |-> [sheetId |-> sheetId, startRowIndex |-> startRow, endRowIndex |-> endRow,
                         startColumnIndex |-> startCol, endColumnIndex |-> endCol]]

\* parseA1ToGridRange(a1Range, sheetId). ok = FALSE stands for the thrown
\* 'Invalid range format' UserError. An unbounded axis has no fields.
parseA1ToGridRange(a1Range, sheetId) ==
  LET r == RowOnlyMatch(a1Range)
      c == ColOnlyMatch(a1Range)
      m == StandardMatch(a1Range)
  IN IF r.ok
       THEN LET startRow == parseInt(r.g1) - 1
                endRow == IF r.has2 THEN parseInt(r.g2) ELSE startRow + 1
            IN [ok |-> TRUE,
                range |-> [sheetId |-> sheetId, startRowIndex |-> startRow, endRowIndex |-> endRow]]
     ELSE IF c.ok
       THEN LET startCol == colLettersToIndex(c.g1)
                endCol == IF c.has2 THEN colLettersToIndex(c.g2) + 1 ELSE startCol + 1
            IN [ok |-> TRUE,
                range |-> [sheetId |-> sheetId, startColumnIndex |-> startCol,
                           endColumnIndex |-> endCol]]
     ELSE IF ~m.ok
       THEN [ok |-> FALSE, range |-> [sheetId |-> sheetId]]
     ELSE LET startCol == colLettersToIndex(m.g1)
              startRow == parseInt(m.g2) - 1
              endCol == IF m.has3 THEN colLettersToIndex(m.g3) + 1 ELSE startCol + 1
              endRow == IF m.has3 THEN parseInt(m.g4) ELSE startRow + 1
          IN [ok |-> TRUE,
              range |-> [sheetId |-> sheetId, startRowIndex |-> startRow, endRowIndex |-> endRow,
                         startColumnIndex |-> startCol, endColumnIndex |-> endCol]]

\* ------------------------------------------------------------------------
\* a1ToRowCol and rowColToA1
\* ------------------------------------------------------------------------

\* String(n) for an integer n >= 0: its decimal digits
RECURSIVE DecimalDigits(_)
DecimalDigits(n) ==
  IF n < 10 THEN << DigitChars[n + 1] >>
  ELSE DecimalDigits(n \div 10) \o << DigitChars[(n % 10) + 1] >>

\* rowColToA1, lines 40-45: the while loop on colNum, which prepends
\* String.fromCharCode(65 + (colNum % 26)) after colNum -= 1.
RECURSIVE ColumnLoop(_, _)
ColumnLoop(colNum, colStr) ==
  IF colNum > 0
    THEN ColumnLoop((colNum - 1) \div 26, << UpperLetters[((colNum - 1) % 26) + 1] >> \o colStr)
    ELSE colStr

\* rowColToA1(row, col), lines 33-48
rowColToA1(row, col) ==
  IF row < 0 \/ col < 0 THEN [ok |-> FALSE, a1 |-> <<>>]
  ELSE [ok |-> TRUE, a1 |-> ColumnLoop(col + 1, <<>>) \o DecimalDigits(row + 1)]

\* a1ToRowCol(a1), lines 13-27: /^([A-Z]+)(\d+)$/i, then the base-26 loop on
\* the upper-cased letters.
a1ToRowCol(a1) ==
  LET l == LetterRunEnd(a1, 1)
      d == DigitRunEnd(a1, l)
  IN IF l > 1 /\ d > l /\ d = Len(a1) + 1
       THEN [ok |-> TRUE, row |-> parseInt(Slice(a1, l, d)) - 1,
             col |-> ColFold(Slice(a1, 1, l), 0) - 1]
       ELSE [ok |-> FALSE, row |-> 0, col |-> 0]

\* ------------------------------------------------------------------------
\* hexToRgb
\* ------------------------------------------------------------------------

IsHexDigit(c) ==
  \/ IsDigit(c)
  \/ \E i \in 1..6 : UpperLetters[i] = c \/ LowerLetters[i] = c

HexDigitValue(c) ==
  IF IsDigit(c) THEN (CHOOSE i \in 1..10 : DigitChars[i] = c) - 1
  ELSE 9 + (CHOOSE i \in 1..6 : UpperLetters[i] = c \/ LowerLetters[i] = c)

\* The end of the longest run of hexadecimal digits of t starting at i.
RECURSIVE HexRunEnd(_, _)
HexRunEnd(t, i) ==
  IF i <= Len(t) /\ IsHexDigit(t[i]) THEN HexRunEnd(t, i + 1) ELSE i

\* The end of the run of blanks of t starting at i.
RECURSIVE BlankRunEnd(_, _)
BlankRunEnd(t, i) ==
  IF i <= Len(t) /\ t[i] = " " THEN BlankRunEnd(t, i + 1) ELSE i

RECURSIVE HexFold(_, _)
HexFold(digits, acc) ==
  IF digits = <<>> THEN acc
  ELSE HexFold(Tail(digits), acc * 16 + HexDigitValue(Head(digits)))

\* parseInt(text, 16): leading blanks are skipped, then an optional sign,
\* then an optional 0x or 0X; the longest run of hexadecimal digits that
\* follows is the number and whatever comes after it is ignored. NaN when
\* that run is empty.
parseInt16(text) ==
  LET s == BlankRunEnd(text, 1)
      signed == s <= Len(text) /\ text[s] \in {"+", "-"}
      a == IF signed THEN s + 1 ELSE s
      prefixed == a + 1 <= Len(text) /\ text[a] = "0" /\ text[a + 1] \in {"x", "X"}
      b == IF prefixed THEN a + 2 ELSE a
      e == HexRunEnd(text, b)
      magnitude == HexFold(Slice(text, b, e), 0)
  IN IF e = b THEN [nan |-> TRUE, n |-> 0]
     ELSE [nan |-> FALSE, n |-> IF signed /\ text[s] = "-" THEN 0 - magnitude ELSE magnitude]

\* hexToRgb returned null
NullColor == [isNull |-> TRUE, red |-> 0, green |-> 0, blue |-> 0]

hexToRgbSixOnly(hex) ==
  IF hex = <<>> THEN NullColor
  ELSE LET hexClean == IF Head(hex) = "#" THEN Tail(hex) ELSE hex
           bigint == parseInt16(hexClean)
       IN IF Len(hexClean) # 6 THEN NullColor
          ELSE IF bigint.nan THEN NullColor
          ELSE [isNull |-> FALSE,
                red |-> (bigint.n \div 65536) % 256,
                green |-> (bigint.n \div 256) % 256,
                blue |-> bigint.n % 256]

\* hexToRgb(hex), lines 1255-1271. A component holds the byte b that stands
\* for the number b / 255. (n >> k) & 255 on a 32-bit integer n is
\* floor(n / 2^k) mod 256.
hexToRgb(hex) ==
  IF hex = <<>> THEN NullColor
  ELSE LET stripped == IF Head(hex) = "#" THEN Tail(hex) ELSE hex
           hexClean == IF Len(stripped) = 3
                         THEN << stripped[1], stripped[1], stripped[2], stripped[2],
                                 stripped[3], stripped[3] >>
                         ELSE stripped
           bigint == parseInt16(hexClean)
       IN IF Len(hexClean) # 6 THEN NullColor
          ELSE IF bigint.nan THEN NullColor
          ELSE [isNull |-> FALSE,
                red |-> (bigint.n \div 65536) % 256,
                green |-> (bigint.n \div 256) % 256,
                blue |-> bigint.n % 256]

\* ------------------------------------------------------------------------
\* The remote spreadsheet and the state of one Sheets invocation
\* ------------------------------------------------------------------------

VARIABLES
  sheetsRemote, \* the spreadsheet: its sheets in listed order, each with title,
                \* sheetId and its conditional-format rules (rule ids, in order)
  nextRule,     \* id the next conditional-format rule created remotely gets
  spc,          \* position of the Sheets invocation: idle, meta, meta2, rules, submit, done
  sArgs,        \* the arguments of the invocation in flight
  sLocal,       \* locals kept across an await: sheetId, gridRange
  sRequests,    \* the requests list built for batchUpdate
  sCalls,       \* remote calls issued by the invocation in flight, in order
  sResult,      \* what the invocation returned or threw
  remoteChanges \* number of changes other clients have made to the spreadsheet

svars ==
  <<sheetsRemote, nextRule, spc, sArgs, sLocal, sRequests, sCalls, sResult, remoteChanges>>

MaxSheetId == 1
MaxRuleId == 3
MaxStartRow == 3
MaxEndRow == 5
MaxRemoteChanges == 1

\* Titles a sheet of the remote spreadsheet can have.
RemoteTitles == { <<"S">>, <<"s">> }

\* Sheet names a caller passes: an existing title in either case, a title
\* no sheet has, and the empty text.
SheetNames == { <<"S">>, <<"s">>, <<"T">>, <<>> }

\* Range texts a caller passes.
RangeTexts ==
  { <<"A", "1", ":", "B", "2">>,
    <<"B", "2">>,
    <<"3", ":", "5">>,
    <<"A", ":", "C">>,
    <<"A", "1", ":", "B">>,
    <<"S", "!", "A", "1">>,
    <<"s", "!", "a", "1", ":", "b", "3">>,
    <<"T", "!", "A", "1">>,
    <<"!", "A", "1">>,
    <<"'", "S", "'", "!", "3", ":", "5">>,
    <<"S", "!", "1", "A">> }

SourceRangeTexts ==
  { <<"S", "!", "A", ":", "A">>,
    <<"C", "1", ":", "C", "3">>,
    <<"T", "!", "A", "1">>,
    <<"!", "A", "1">>,
    <<"s", "!", "A", "1", ":">> }

\* values of setDropdownValidation: absent or empty, or a list of options.
DropdownValues == { <<>>, << <<"O", "k">>, <<"N", "o">> >> }

\* Optional number arguments: given = FALSE stands for undefined.
NoNumber == [given |-> FALSE, n |-> 0]
OptionalCounts == { NoNumber, [given |-> TRUE, n |-> 0], [given |-> TRUE, n |-> 1] }

\* The attributes of formatCells' format object that the caller supplies.
FormatChoices == { {"textFormat.bold"}, {"backgroundColor", "horizontalAlignment"} }

\* Optional arguments: given = FALSE stands for undefined.
NoText == [given |-> FALSE, v |-> <<>>]
NoEnum == [given |-> FALSE, v |-> ""]
NoBool == [given |-> FALSE, v |-> FALSE]
Text(chars) == [given |-> TRUE, v |-> chars]
Enum(name) == [given |-> TRUE, v |-> name]

\* A cellFormats entry of batchFormat with only its range.
CellFormat(range) ==
  [range |-> range, fontSize |-> NoNumber, bold |-> NoBool, italic |-> NoBool,
   fontFamily |-> NoText, fontColor |-> NoText, backgroundColor |-> NoText,
   horizontalAlignment |-> NoEnum, verticalAlignment |-> NoEnum,
   numberFormat |-> NoText, wrapStrategy |-> NoEnum]

NoOperations ==
  [cellFormats |-> <<>>, columnWidths |-> <<>>, rowHeights |-> <<>>,
   hideColumns |-> [given |-> FALSE, startColumn |-> <<>>, endColumn |-> <<>>],
   merges |-> <<>>, freezeRows |-> NoNumber, freezeColumns |-> NoNumber]

\* The operations objects batchFormat is called with.
OperationsChoices ==
  { NoOperations,
    [NoOperations EXCEPT !.cellFormats =
       << [CellFormat(<<"A", "1", ":", "B", "2">>) EXCEPT
             !.bold = [given |-> TRUE, v |-> TRUE],
             !.numberFormat = Text(<<"0", ".", "0", "0">>)] >>],
    [NoOperations EXCEPT !.cellFormats = << CellFormat(<<"B", "2">>) >>],
    [NoOperations EXCEPT !.cellFormats =
       << [CellFormat(<<"D", "4">>) EXCEPT !.backgroundColor = Text(<<"z", "z">>)] >>],
    [NoOperations EXCEPT !.cellFormats =
       << [CellFormat(<<"B", "2">>) EXCEPT !.wrapStrategy = Enum("WRAP")],
          [CellFormat(<<"A", "1", ":", "B">>) EXCEPT !.bold = [given |-> TRUE, v |-> TRUE]] >>],
    [NoOperations EXCEPT !.cellFormats =
       << [CellFormat(<<"C", "3">>) EXCEPT
             !.backgroundColor = Text(<<"z", "z">>),
             !.fontColor = Text(<<"F", "0", "0">>),
             !.bold = [given |-> TRUE, v |-> FALSE],
             !.fontSize = [given |-> TRUE, n |-> 0],
             !.fontFamily = Text(<<>>),
             !.verticalAlignment = Enum("TOP")],
          [CellFormat(<<"D", "4">>) EXCEPT
             !.backgroundColor = Text(<<"#", "1", "2", "g", "4", "5", "6">>),
             !.numberFormat = Text(<<>>)] >>],
    [NoOperations EXCEPT !.merges = << <<"A", "7", ":", "E", "7">> >>],
    [NoOperations EXCEPT !.merges = << <<"A", "1", ":", "B", "2">>, <<"A", ":", "C">> >>],
    [NoOperations EXCEPT !.freezeRows = [given |-> TRUE, n |-> 1]],
    [NoOperations EXCEPT !.columnWidths = << [column |-> <<"1">>, width |-> 100] >>],
    [cellFormats |-> << [CellFormat(<<"A", "1">>) EXCEPT
                           !.backgroundColor = Text(<<"#", "F", "F", "0", "0", "0", "0">>),
                           !.italic = [given |-> TRUE, v |-> TRUE],
                           !.horizontalAlignment = Enum("CENTER")] >>,
     columnWidths |-> << [column |-> <<"A", "A">>, width |-> 120] >>,
     rowHeights |-> << [row |-> 2, height |-> 30] >>,
     hideColumns |-> [given |-> TRUE, startColumn |-> <<"H">>, endColumn |-> <<"Z">>],
     merges |-> << <<"B", "1", ":", "C", "1">> >>,
     freezeRows |-> [given |-> TRUE, n |-> 0],
     freezeColumns |-> [given |-> TRUE, n |-> 1]] }

SheetOps ==
  { "formatCells", "freezeRowsAndColumns", "setDropdownValidation", "formatSpreadsheet",
    "deleteSpreadsheetRows", "addConditionalFormatRule", "deleteConditionalFormatRule",
    "clearConditionalFormatRules" }

NoSArgs ==
  [op |-> "none", named |-> FALSE, sheetName |-> <<>>, range |-> <<>>,
   hasSource |-> FALSE, sourceRange |-> <<>>, values |-> <<>>,
   startRow |-> 0, endRow |-> 0, ruleIndex |-> 0,
   operations |-> NoOperations, frozenRows |-> NoNumber, frozenColumns |-> NoNumber,
   format |-> {}]

\* The argument records of the invocations, per operation.
FormatCellsArgs ==
  { [NoSArgs EXCEPT !.op = "formatCells", !.range = r, !.format = f] :
      r \in RangeTexts, f \in FormatChoices }

FreezeArgs ==
  { [NoSArgs EXCEPT !.op = "freezeRowsAndColumns", !.named = TRUE, !.sheetName = n,
                    !.frozenRows = fr, !.frozenColumns = fc] :
      n \in SheetNames, fr \in OptionalCounts, fc \in {NoNumber, [given |-> TRUE, n |-> 1]} }
  \cup
  { [NoSArgs EXCEPT !.op = "freezeRowsAndColumns", !.frozenRows = [given |-> TRUE, n |-> 1]] }

\* sourceRange is optional; the empty text is falsy like undefined.
DropdownArgs ==
  { [NoSArgs EXCEPT !.op = "setDropdownValidation", !.range = r, !.values = v] :
      r \in RangeTexts, v \in DropdownValues }
  \cup
  { [NoSArgs EXCEPT !.op = "setDropdownValidation", !.range = r, !.values = v,
                    !.hasSource = TRUE, !.sourceRange = s] :
      r \in { <<"B", "2">>, <<"A", "1", ":", "B">>, <<"T", "!", "A", "1">> },
      v \in DropdownValues, s \in SourceRangeTexts }
  \cup
  { [NoSArgs EXCEPT !.op = "setDropdownValidation", !.range = <<"B", "2">>, !.values = v,
                    !.hasSource = TRUE, !.sourceRange = <<>>] : v \in DropdownValues }

FormatSpreadsheetArgs ==
  { [NoSArgs EXCEPT !.op = "formatSpreadsheet", !.named = TRUE, !.sheetName = n,
                    !.operations = o] :
      n \in SheetNames, o \in OperationsChoices }

\* startRow and endRow pass the tool's z.number().int().min(1).
DeleteRowsArgs ==
  { [NoSArgs EXCEPT !.op = "deleteSpreadsheetRows", !.named = TRUE, !.sheetName = n,
                    !.startRow = a, !.endRow = b] :
      n \in SheetNames, a \in 1..MaxStartRow, b \in 1..MaxEndRow }

AddRuleArgs ==
  { [NoSArgs EXCEPT !.op = "addConditionalFormatRule", !.named = TRUE, !.sheetName = n,
                    !.range = r] :
      n \in SheetNames,
      r \in { <<"A", "1", ":", "D", "3">>, <<"B", "2">>, <<"3", ":", "5">>, <<"A", "1", ":", "B">> } }

DeleteRuleArgs ==
  { [NoSArgs EXCEPT !.op = "deleteConditionalFormatRule", !.named = TRUE, !.sheetName = n,
                    !.ruleIndex = i] :
      n \in SheetNames, i \in 0..MaxRuleId }

ClearRulesArgs ==
  { [NoSArgs EXCEPT !.op = "clearConditionalFormatRules", !.named = TRUE, !.sheetName = n] :
      n \in SheetNames }

SheetsArgs ==
  FormatCellsArgs \cup FreezeArgs \cup DropdownArgs \cup FormatSpreadsheetArgs
    \cup DeleteRowsArgs \cup AddRuleArgs \cup DeleteRuleArgs \cup ClearRulesArgs

\* ------------------------------------------------------------------------
\* Sheet lookup
\* ------------------------------------------------------------------------

\* metadata.sheets?.find((s) => s.properties?.title === name): index of the
\* first sheet with exactly this title, 0 for undefined.
RECURSIVE FindTitleFrom(_, _, _)
FindTitleFrom(meta, name, i) ==
  IF i > Len(meta) THEN 0
  ELSE IF meta[i].title = name THEN i ELSE FindTitleFrom(meta, name, i + 1)

FindTitle(meta, name) == FindTitleFrom(meta, name, 1)

Resolved(id) == [error |-> "none", sheetId |-> id]
NotResolved(e) == [error |-> e, sheetId |-> -1]

\* resolveSheetId after its metadata read returned meta. if (sheetName) is
\* false for null, undefined and the empty text.
resolveSheetId(meta, named, sheetName) ==
  IF named /\ sheetName # <<>>
    THEN LET i == FindTitle(meta, sheetName)
         IN IF i = 0 THEN NotResolved("SheetNotFound") ELSE Resolved(meta[i].sheetId)
    ELSE IF Len(meta) = 0 THEN NotResolved("NoSheets") ELSE Resolved(meta[1].sheetId)

\* The lookup of batchFormat (904-908), deleteRows (1124-1130) and the
\* conditional-format tools: find by title, 'not found' when there is none.
\* A sheetId of 0 passes the test.
findSheetByTitle(meta, sheetName) ==
  LET i == FindTitle(meta, sheetName)
  IN IF i = 0 THEN NotResolved("SheetNotFound") ELSE Resolved(meta[i].sheetId)

\* ------------------------------------------------------------------------
\* What each operation does once its metadata read has returned
\* ------------------------------------------------------------------------
Throw(e) == [error |-> e, requests |-> <<>>]
Submit(reqs) == [error |-> "none", requests |-> reqs]

formatCellsUnchecked(meta, range, format) ==
  LET p == parseRange(range)
      r == resolveSheetId(meta, p.named, p.sheetName)
      g == parseA1ToGridRange(p.a1Range, r.sheetId)
  IN IF r.error # "none" THEN Throw(r.error)
     ELSE Submit(<< [kind |-> "repeatCell", range |-> g.range, format |-> format,
                     fields |-> <<"backgroundColor", "textFormat", "horizontalAlignment",
                                  "verticalAlignment">>] >>)

\* formatCells, lines 424-489
formatCells(meta, range, format) ==
  LET p == parseRange(range)
      r == resolveSheetId(meta, p.named, p.sheetName)
      g == parseA1ToGridRange(p.a1Range, r.sheetId)
  IN IF r.error # "none" THEN Throw(r.error)
     ELSE IF ~g.ok THEN Throw("InvalidFormat")
     ELSE Submit(<< [kind |-> "repeatCell", range |-> g.range, format |-> format,
                     fields |-> <<"backgroundColor", "textFormat", "horizontalAlignment",
                                  "verticalAlignment">>] >>)

\* freezeRowsAndColumns, lines 516-546
freezeRowsAndColumns(meta, named, sheetName, frozenRows, frozenColumns) ==
  LET r == resolveSheetId(meta, named, sheetName)
      fieldParts ==
        (IF frozenRows.given THEN <<"gridProperties.frozenRowCount">> ELSE <<>>)
        \o (IF frozenColumns.given THEN <<"gridProperties.frozenColumnCount">> ELSE <<>>)
  IN IF r.error # "none" THEN Throw(r.error)
     ELSE Submit(<< [kind |-> "updateSheetProperties", sheetId |-> r.sheetId,
                     gridProperties |-> [frozenRowCount |-> frozenRows,
                                         frozenColumnCount |-> frozenColumns],
                     fields |-> fieldParts] >>)

NoRule == [type |-> "none", values |-> <<>>]

\* setDropdownValidation, lines 580-582: the target range is resolved and
\* parsed after the first metadata read.
dropdownTarget(meta, range) ==
  LET p == parseRange(range)
      r == resolveSheetId(meta, p.named, p.sheetName)
      g == parseA1ToGridRange(p.a1Range, r.sheetId)
  IN IF r.error # "none" THEN [error |-> r.error, gridRange |-> g.range]
     ELSE IF ~g.ok THEN [error |-> "InvalidFormat", gridRange |-> g.range]
     ELSE [error |-> "none", gridRange |-> g.range]

dropdownListAlways(gridRange, values) ==
  << [kind |-> "setDataValidation", range |-> gridRange,
      rule |-> [type |-> "ONE_OF_LIST", values |-> values]] >>

\* setDropdownValidation, lines 604-629, no sourceRange: ONE_OF_LIST for a
\* non-empty values list, no rule otherwise.
dropdownListRequest(gridRange, values) ==
  << [kind |-> "setDataValidation", range |-> gridRange,
      rule |-> IF Len(values) > 0
                 THEN [type |-> "ONE_OF_LIST", values |-> values]
                 ELSE NoRule] >>

\* setDropdownValidation, lines 586-603 and 617-629: the source range is
\* resolved with a second metadata read and parsed; the rule refers to it.
dropdownSource(meta, gridRange, sourceRange) ==
  LET p == parseRange(sourceRange)
      r == resolveSheetId(meta, p.named, p.sheetName)
      g == parseA1ToGridRange(p.a1Range, r.sheetId)
      ref == <<"=">>
             \o (IF p.named /\ p.sheetName # <<>>
                   THEN <<"'">> \o p.sheetName \o <<"'", "!">> ELSE <<>>)
             \o p.a1Range
  IN IF r.error # "none" THEN Throw(r.error)
     ELSE IF ~g.ok THEN Throw("InvalidFormat")
     ELSE Submit(<< [kind |-> "setDataValidation", range |-> gridRange,
                     rule |-> [type |-> "ONE_OF_RANGE", values |-> <<ref>>]] >>)

parseA1RangeExclusive(a1) ==
  LET m == StandardMatch(a1)
      startCol == colLettersToIndex(m.g1)
      startRow == parseInt(m.g2) - 1
  IN IF ~m.ok THEN [ok |-> FALSE, startRow |-> 0, endRow |-> 0, startCol |-> 0, endCol |-> 0]
     ELSE [ok |-> TRUE, startRow |-> startRow,
           endRow |-> IF m.has3 THEN parseInt(m.g4) ELSE startRow + 1,
           startCol |-> startCol,
           endCol |-> IF m.has3 THEN colLettersToIndex(m.g3) + 1 ELSE startCol + 1]

\* batchFormat's parseA1Range, lines 919-927 (inclusive end bounds)
parseA1Range(a1) ==
  LET m == StandardMatch(a1)
      startCol == colLettersToIndex(m.g1)
      startRow == parseInt(m.g2) - 1
  IN IF ~m.ok THEN [ok |-> FALSE, startRow |-> 0, endRow |-> 0, startCol |-> 0, endCol |-> 0]
     ELSE [ok |-> TRUE, startRow |-> startRow,
           endRow |-> IF m.has3 THEN parseInt(m.g4) - 1 ELSE startRow,
           startCol |-> startCol,
           endCol |-> IF m.has3 THEN colLettersToIndex(m.g3) ELSE startCol]

\* if (text) for an optional string: given and not empty
Truthy(opt) == opt.given /\ opt.v # <<>>

\* A color text that hexToRgb turns into a color (lines 938-944, 950-957)
UsableColor(opt) == Truthy(opt) /\ ~hexToRgb(opt.v).isNull

cellFormatFieldsUnchecked(fmt) ==
  (IF Truthy(fmt.backgroundColor) THEN <<"userEnteredFormat.backgroundColor">> ELSE <<>>)
  \o (IF Truthy(fmt.fontColor)
        THEN <<"userEnteredFormat.textFormat.foregroundColor">> ELSE <<>>)
  \o (IF fmt.fontSize.given THEN <<"userEnteredFormat.textFormat.fontSize">> ELSE <<>>)
  \o (IF fmt.bold.given THEN <<"userEnteredFormat.textFormat.bold">> ELSE <<>>)
  \o (IF fmt.italic.given THEN <<"userEnteredFormat.textFormat.italic">> ELSE <<>>)
  \o (IF Truthy(fmt.fontFamily) THEN <<"userEnteredFormat.textFormat.fontFamily">> ELSE <<>>)
  \o (IF fmt.horizontalAlignment.given
        THEN <<"userEnteredFormat.horizontalAlignment">> ELSE <<>>)
  \o (IF fmt.verticalAlignment.given THEN <<"userEnteredFormat.verticalAlignment">> ELSE <<>>)
  \o (IF Truthy(fmt.numberFormat) THEN <<"userEnteredFormat.numberFormat">> ELSE <<>>)
  \o (IF fmt.wrapStrategy.given THEN <<"userEnteredFormat.wrapStrategy">> ELSE <<>>)

\* batchFormat, lines 933-996: the fields list of one cellFormats entry, in
\* the order of its fields.push calls
cellFormatFields(fmt) ==
  (IF UsableColor(fmt.backgroundColor) THEN <<"userEnteredFormat.backgroundColor">> ELSE <<>>)
  \o (IF UsableColor(fmt.fontColor)
        THEN <<"userEnteredFormat.textFormat.foregroundColor">> ELSE <<>>)
  \o (IF fmt.fontSize.given THEN <<"userEnteredFormat.textFormat.fontSize">> ELSE <<>>)
  \o (IF fmt.bold.given THEN <<"userEnteredFormat.textFormat.bold">> ELSE <<>>)
  \o (IF fmt.italic.given THEN <<"userEnteredFormat.textFormat.italic">> ELSE <<>>)
  \o (IF Truthy(fmt.fontFamily) THEN <<"userEnteredFormat.textFormat.fontFamily">> ELSE <<>>)
  \o (IF fmt.horizontalAlignment.given
        THEN <<"userEnteredFormat.horizontalAlignment">> ELSE <<>>)
  \o (IF fmt.verticalAlignment.given THEN <<"userEnteredFormat.verticalAlignment">> ELSE <<>>)
  \o (IF Truthy(fmt.numberFormat) THEN <<"userEnteredFormat.numberFormat">> ELSE <<>>)
  \o (IF fmt.wrapStrategy.given THEN <<"userEnteredFormat.wrapStrategy">> ELSE <<>>)

\* batchFormat, lines 933-996: the userEnteredFormat object of one
\* cellFormats entry, as a function from the attributes that were assigned
\* to their values; textFormat is assigned when one of its members is.
cellUserEnteredFormat(fmt) ==
  LET assigned ==
        (IF UsableColor(fmt.backgroundColor) THEN {"backgroundColor"} ELSE {})
        \cup (IF UsableColor(fmt.fontColor) THEN {"textFormat.foregroundColor"} ELSE {})
        \cup (IF fmt.fontSize.given THEN {"textFormat.fontSize"} ELSE {})
        \cup (IF fmt.bold.given THEN {"textFormat.bold"} ELSE {})
        \cup (IF fmt.italic.given THEN {"textFormat.italic"} ELSE {})
        \cup (IF Truthy(fmt.fontFamily) THEN {"textFormat.fontFamily"} ELSE {})
        \cup (IF fmt.horizontalAlignment.given THEN {"horizontalAlignment"} ELSE {})
        \cup (IF fmt.verticalAlignment.given THEN {"verticalAlignment"} ELSE {})
        \cup (IF Truthy(fmt.numberFormat) THEN {"numberFormat"} ELSE {})
        \cup (IF fmt.wrapStrategy.given THEN {"wrapStrategy"} ELSE {})
  IN [a \in assigned |->
        CASE a = "backgroundColor" -> hexToRgb(fmt.backgroundColor.v)
          [] a = "textFormat.foregroundColor" -> hexToRgb(fmt.fontColor.v)
          [] a = "textFormat.fontSize" -> fmt.fontSize.n
          [] a = "textFormat.bold" -> fmt.bold.v
          [] a = "textFormat.italic" -> fmt.italic.v
          [] a = "textFormat.fontFamily" -> fmt.fontFamily.v
          [] a = "horizontalAlignment" -> fmt.horizontalAlignment.v
          [] a = "verticalAlignment" -> fmt.verticalAlignment.v
          [] a = "numberFormat" -> [type |-> "NUMBER", pattern |-> fmt.numberFormat.v]
          [] OTHER -> fmt.wrapStrategy.v]

\* batchFormat, lines 931-1014: one repeatCell request per cellFormats entry
\* whose fields list is not empty
RECURSIVE cellFormatRequests(_, _)
cellFormatRequests(fmts, sheetId) ==
  IF fmts = <<>> THEN <<>>
  ELSE LET fmt == Head(fmts)
           a == parseA1Range(fmt.range)
           fields == cellFormatFields(fmt)
       IN (IF Len(fields) > 0
             THEN << [kind |-> "repeatCell",
                      range |-> [sheetId |-> sheetId,
                                 startRowIndex |-> a.startRow, endRowIndex |-> a.endRow + 1,
                                 startColumnIndex |-> a.startCol, endColumnIndex |-> a.endCol + 1],
                      userEnteredFormat |-> cellUserEnteredFormat(fmt),
                      fields |-> fields] >>
             ELSE <<>>)
          \o cellFormatRequests(Tail(fmts), sheetId)

\* batchFormat, lines 1016-1051
dimensionRequests(ops, sheetId) ==
  [i \in 1..Len(ops.columnWidths) |->
     LET colIndex == colLettersToIndex(ops.columnWidths[i].column)
     IN [kind |-> "updateDimensionProperties", sheetId |-> sheetId, dimension |-> "COLUMNS",
         startIndex |-> colIndex, endIndex |-> colIndex + 1, fields |-> "pixelSize"]]
  \o
  [i \in 1..Len(ops.rowHeights) |->
     [kind |-> "updateDimensionProperties", sheetId |-> sheetId, dimension |-> "ROWS",
      startIndex |-> ops.rowHeights[i].row - 1, endIndex |-> ops.rowHeights[i].row,
      fields |-> "pixelSize"]]
  \o
  (IF ops.hideColumns.given
     THEN << [kind |-> "updateDimensionProperties", sheetId |-> sheetId, dimension |-> "COLUMNS",
              startIndex |-> colLettersToIndex(ops.hideColumns.startColumn),
              endIndex |-> colLettersToIndex(ops.hideColumns.endColumn) + 1,
              fields |-> "hiddenByUser"] >>
     ELSE <<>>)

\* batchFormat, lines 1053-1069
mergeRequests(merges, sheetId) ==
  [i \in 1..Len(merges) |->
     LET a == parseA1Range(merges[i])
     IN [kind |-> "mergeCells", mergeType |-> "MERGE_ALL",
         range |-> [sheetId |-> sheetId,
                    startRowIndex |-> a.startRow, endRowIndex |-> a.endRow + 1,
                    startColumnIndex |-> a.startCol, endColumnIndex |-> a.endCol + 1]]]

\* batchFormat, lines 1071-1088
freezeRequests(ops, sheetId) ==
  IF ops.freezeRows.given \/ ops.freezeColumns.given
    THEN << [kind |-> "updateSheetProperties", sheetId |-> sheetId,
             gridProperties |-> [frozenRowCount |-> ops.freezeRows,
                                 frozenColumnCount |-> ops.freezeColumns],
             fields |-> (IF ops.freezeRows.given
                           THEN <<"gridProperties.frozenRowCount">> ELSE <<>>)
                        \o (IF ops.freezeColumns.given
                              THEN <<"gridProperties.frozenColumnCount">> ELSE <<>>)] >>
    ELSE <<>>

\* batchFormat, lines 902-1097. Every parseA1Range of cellFormats and merges
\* runs before the batchUpdate; the first text it rejects ends the call.
batchFormat(meta, sheetName, ops) ==
  LET r == findSheetByTitle(meta, sheetName)
  IN IF r.error # "none" THEN Throw(r.error)
     ELSE IF \E i \in 1..Len(ops.cellFormats) : ~parseA1Range(ops.cellFormats[i].range).ok
       THEN Throw("InvalidFormat")
     ELSE IF \E i \in 1..Len(ops.merges) : ~parseA1Range(ops.merges[i]).ok
       THEN Throw("InvalidFormat")
     ELSE Submit(cellFormatRequests(ops.cellFormats, r.sheetId)
                 \o dimensionRequests(ops, r.sheetId)
                 \o mergeRequests(ops.merges, r.sheetId)
                 \o freezeRequests(ops, r.sheetId))

deleteRowsInclusiveEnd(meta, sheetName, startRow, endRow) ==
  LET r == findSheetByTitle(meta, sheetName)
  IN IF r.error # "none" THEN Throw(r.error)
     ELSE IF startRow < 1 \/ endRow < 1 THEN Throw("InvalidRows")
     ELSE IF startRow > endRow THEN Throw("InvalidRows")
     ELSE Submit(<< [kind |-> "deleteDimension", sheetId |-> r.sheetId, dimension |-> "ROWS",
                     startIndex |-> startRow - 1, endIndex |-> endRow - 1] >>)

\* deleteRows, lines 1122-1154
deleteRows(meta, sheetName, startRow, endRow) ==
  LET r == findSheetByTitle(meta, sheetName)
  IN IF r.error # "none" THEN Throw(r.error)
     ELSE IF startRow < 1 \/ endRow < 1 THEN Throw("InvalidRows")
     ELSE IF startRow > endRow THEN Throw("InvalidRows")
     ELSE Submit(<< [kind |-> "deleteDimension", sheetId |-> r.sheetId, dimension |-> "ROWS",
                     startIndex |-> startRow - 1, endIndex |-> endRow] >>)

\* /^([A-Z]+)(\d+):([A-Z]+)(\d+)$/i of the addConditionalFormatRule tool
RectMatch(t) ==
  LET m == StandardMatch(t) IN IF m.ok /\ m.has3 THEN m ELSE NoStandardMatch

\* addConditionalFormatRule tool, lines 54-123, and the helper's request
\* (lines 707-733, index defaulting to 0)
addConditionalFormatRuleTool(meta, sheetName, range) ==
  LET r == findSheetByTitle(meta, sheetName)
      m == RectMatch(range)
  IN IF r.error # "none" THEN Throw(r.error)
     ELSE IF ~m.ok THEN Throw("InvalidFormat")
     ELSE Submit(<< [kind |-> "addConditionalFormatRule", sheetId |-> r.sheetId, index |-> 0,
                     range |-> [sheetId |-> r.sheetId,
                                startRowIndex |-> parseInt(m.g2) - 1,
                                endRowIndex |-> parseInt(m.g4),
                                startColumnIndex |-> colLettersToIndex(m.g1),
                                endColumnIndex |-> colLettersToIndex(m.g3) + 1]] >>)

\* deleteConditionalFormatRule tool, lines 30-45, and the helper's request
\* (lines 803-815)
deleteConditionalFormatRuleTool(meta, sheetName, ruleIndex) ==
  LET r == findSheetByTitle(meta, sheetName)
  IN IF r.error # "none" THEN Throw(r.error)
     ELSE Submit(<< [kind |-> "deleteConditionalFormatRule", sheetId |-> r.sheetId,
                     index |-> ruleIndex] >>)

\* getConditionalFormatRules(sheets, spreadsheetId, sheetId), lines 762-781:
\* the entries of the sheets whose id is sheetId.
getConditionalFormatRules(meta, sheetId) ==
  SelectSeq([i \in 1..Len(meta) |-> [sheetId |-> meta[i].sheetId, sheetName |-> meta[i].title,
                                      rules |-> meta[i].rules]],
            LAMBDA s : s.sheetId = sheetId)

ClearAscending(meta, sheetId) ==
  LET existingRules == getConditionalFormatRules(meta, sheetId)
  IN IF existingRules = <<>> \/ Len(existingRules[1].rules) = 0
       THEN Submit(<<>>)
       ELSE Submit([k \in 1..Len(existingRules[1].rules) |->
                      [kind |-> "deleteConditionalFormatRule", sheetId |-> sheetId,
                       index |-> k - 1]])

\* clearConditionalFormatRules, lines 838-853, after its rule read returned:
\* no request for a missing entry or an empty rule list, else one delete per
\* rule, from index length - 1 down to 0.
clearConditionalFormatRules(meta, sheetId) ==
  LET existingRules == getConditionalFormatRules(meta, sheetId)
  IN IF existingRules = <<>> \/ Len(existingRules[1].rules) = 0
       THEN Submit(<<>>)
       ELSE Submit([k \in 1..Len(existingRules[1].rules) |->
                      [kind |-> "deleteConditionalFormatRule", sheetId |-> sheetId,
                       index |-> Len(existingRules[1].rules) - k]])

\* ------------------------------------------------------------------------
\* The remote side
\* ------------------------------------------------------------------------
\* HTTP statuses of a failed remote call: not found, forbidden, malformed
\* request, transient failure.
RemoteErrorCodes == { "404", "403", "400", "503" }

\* The UserError the helpers raise for a failed remote call: 'Spreadsheet
\* not found ...' for 404, 'Permission denied ...' for 403, and for every
\* other status 'Failed to <operation>: <remote message>'.
ErrorOf(code) ==
  CASE code = "404" -> "SpreadsheetNotFound"
    [] code = "403" -> "PermissionDenied"
    [] OTHER -> "Failed"

RequestSheetId(req) == IF "sheetId" \in DOMAIN req THEN req.sheetId ELSE req.range.sheetId

RECURSIVE SheetIndexFrom(_, _, _)
SheetIndexFrom(sheets, id, i) ==
  IF i > Len(sheets) THEN 0
  ELSE IF sheets[i].sheetId = id THEN i ELSE SheetIndexFrom(sheets, id, i + 1)

RemoveAt(s, k) == SubSeq(s, 1, k - 1) \o SubSeq(s, k + 1, Len(s))
InsertAt(s, k, x) == SubSeq(s, 1, k - 1) \o <<x>> \o SubSeq(s, k, Len(s))

\* The remote applies one request: the sheet must exist; deleting rule index
\* i removes it and shifts the rules above it down by one; adding a rule
\* inserts it at the given index. Where the sheet's grid rows are tracked
\* (the row-deletion specification), deleteDimension removes the rows at
\* [startIndex, endIndex) of the current grid, shifting the rows below up,
\* and is rejected when it reaches past the grid or would remove every row.
ApplyRequest(st, req) ==
  LET i == SheetIndexFrom(st.sheets, RequestSheetId(req), 1)
  IN IF ~st.ok \/ i = 0 THEN [st EXCEPT !.ok = FALSE]
     ELSE IF req.kind = "deleteConditionalFormatRule"
       THEN IF req.index >= Len(st.sheets[i].rules) THEN [st EXCEPT !.ok = FALSE]
            ELSE [st EXCEPT !.sheets[i].rules = RemoveAt(@, req.index + 1)]
     ELSE IF req.kind = "addConditionalFormatRule"
       THEN IF req.index > Len(st.sheets[i].rules) THEN [st EXCEPT !.ok = FALSE]
            ELSE [st EXCEPT !.sheets[i].rules = InsertAt(@, req.index + 1, st.next),
                            !.next = @ + 1]
     ELSE IF req.kind = "deleteDimension" /\ "rows" \in DOMAIN st.sheets[i]
       THEN IF \/ req.endIndex > Len(st.sheets[i].rows)
               \/ req.endIndex - req.startIndex >= Len(st.sheets[i].rows)
              THEN [st EXCEPT !.ok = FALSE]
              ELSE [st EXCEPT !.sheets[i].rows =
                                 SubSeq(@, 1, req.startIndex) \o SubSeq(@, req.endIndex + 1, Len(@)),
                              !.sheets[i].deletions =
                                 Append(@, [startIndex |-> req.startIndex,
                                            endIndex |-> req.endIndex])]
     ELSE st

\* A batch is applied request by request, in order, and as a whole or not
\* at all.
RECURSIVE ApplyBatchFrom(_, _)
ApplyBatchFrom(st, reqs) ==
  IF reqs = <<>> THEN st ELSE ApplyBatchFrom(ApplyRequest(st, Head(reqs)), Tail(reqs))

ApplyBatch(sheets, next, reqs) ==
  ApplyBatchFrom([ok |-> TRUE, sheets |-> sheets, next |-> next], reqs)

\* Other clients change the spreadsheet between the remote calls of an
\* invocation and between invocations. A change made while the handler
\* awaits its first read is the same change made before the invocation, and
\* one made after it has finished is the same change made after it returned.
OtherClientMayAct ==
  /\ remoteChanges < MaxRemoteChanges
  /\ spc \in {"idle", "meta2", "rules", "submit"}

UsedTitles == { sheetsRemote[i].title : i \in 1..Len(sheetsRemote) }
UsedSheetIds == { sheetsRemote[i].sheetId : i \in 1..Len(sheetsRemote) }

\* The id a new sheet is given. Sheet ids matter only by being equal or
\* different, so the new sheet takes the first id that no sheet has.
FreshSheetIds ==
  { id \in (0..MaxSheetId) \ UsedSheetIds :
      \A other \in (0..MaxSheetId) \ UsedSheetIds : id <= other }

\* Another client adds a sheet: a title not in use, an id not in use.
RemoteAddSheet ==
  /\ OtherClientMayAct
  /\ remoteChanges' = remoteChanges + 1
  /\ \E title \in RemoteTitles \ UsedTitles, id \in FreshSheetIds :
       sheetsRemote' = Append(sheetsRemote, [title |-> title, sheetId |-> id, rules |-> <<>>])
  /\ UNCHANGED <<nextRule, spc, sArgs, sLocal, sRequests, sCalls, sResult>>
  /\ UNCHANGED <<dvars, pvars, avars>>

\* Another client deletes a sheet (or the metadata lists none).
RemoteDeleteSheet ==
  /\ OtherClientMayAct
  /\ remoteChanges' = remoteChanges + 1
  /\ \E i \in 1..Len(sheetsRemote) : sheetsRemote' = RemoveAt(sheetsRemote, i)
  /\ UNCHANGED <<nextRule, spc, sArgs, sLocal, sRequests, sCalls, sResult>>
  /\ UNCHANGED <<dvars, pvars, avars>>

\* Another client renames a sheet: same id, a title not in use.
RemoteRenameSheet ==
  /\ OtherClientMayAct
  /\ remoteChanges' = remoteChanges + 1
  /\ \E i \in 1..Len(sheetsRemote), title \in RemoteTitles \ UsedTitles :
       sheetsRemote' = [sheetsRemote EXCEPT ![i].title = title]
  /\ UNCHANGED <<nextRule, spc, sArgs, sLocal, sRequests, sCalls, sResult>>
  /\ UNCHANGED <<dvars, pvars, avars>>

\* Another client deletes a sheet and re-creates it under the same title:
\* the new sheet has an id not in use, no rules, and is listed last.
RemoteRecreateSheet ==
  /\ OtherClientMayAct
  /\ remoteChanges' = remoteChanges + 1
  /\ \E i \in 1..Len(sheetsRemote), id \in FreshSheetIds :
       sheetsRemote' = Append(RemoveAt(sheetsRemote, i),
                              [title |-> sheetsRemote[i].title, sheetId |-> id, rules |-> <<>>])
  /\ UNCHANGED <<nextRule, spc, sArgs, sLocal, sRequests, sCalls, sResult>>
  /\ UNCHANGED <<dvars, pvars, avars>>

\* Another client adds a conditional-format rule at the top of a sheet.
RemoteAddRule ==
  /\ OtherClientMayAct
  /\ remoteChanges' = remoteChanges + 1
  /\ nextRule <= MaxRuleId
  /\ \E i \in 1..Len(sheetsRemote) :
       sheetsRemote' = [sheetsRemote EXCEPT ![i].rules = <<nextRule>> \o @]
  /\ nextRule' = nextRule + 1
  /\ UNCHANGED <<spc, sArgs, sLocal, sRequests, sCalls, sResult>>
  /\ UNCHANGED <<dvars, pvars, avars>>

\* Another client deletes a conditional-format rule.
RemoteDeleteRule ==
  /\ OtherClientMayAct
  /\ remoteChanges' = remoteChanges + 1
  /\ \E i \in 1..Len(sheetsRemote) :
       \E k \in 1..Len(sheetsRemote[i].rules) :
         sheetsRemote' = [sheetsRemote EXCEPT ![i].rules = RemoveAt(@, k)]
  /\ UNCHANGED <<nextRule, spc, sArgs, sLocal, sRequests, sCalls, sResult>>
  /\ UNCHANGED <<dvars, pvars, avars>>

\* ------------------------------------------------------------------------
\* The Sheets invocations
\* ------------------------------------------------------------------------
NoLocal == [sheetId |-> -1, gridRange |-> [sheetId |-> -1]]
NoResult == [status |-> "none", error |-> "none", count |-> 0]
ErrorResult(e) == [status |-> "error", error |-> e, count |-> 0]

\* The text the tool returns; deleteSpreadsheetRows reports
\* endRow - startRow + 1 rows (formatSpreadsheet.ts 173-174), and
\* formatSpreadsheet reports args.cellFormats.length cell formats (111).
OkResult(args) ==
  [status |-> "ok", error |-> "none",
   count |-> IF args.op = "deleteSpreadsheetRows" THEN args.endRow - args.startRow + 1
             ELSE IF args.op = "formatSpreadsheet" THEN Len(args.operations.cellFormats)
             ELSE 0]

GetCall(status, response) ==
  [call |-> "get", status |-> status, requests |-> <<>>, response |-> response]

BatchUpdateCallFirstOnly(status, reqs) ==
  [call |-> "batchUpdate", status |-> status,
   requests |-> IF reqs = <<>> THEN reqs ELSE << Head(reqs) >>, response |-> <<>>]

BatchUpdateCall(status, reqs) ==
  [call |-> "batchUpdate", status |-> status, requests |-> reqs, response |-> <<>>]

SheetsInit ==
  /\ sheetsRemote = << [title |-> <<"S">>, sheetId |-> 0, rules |-> <<1, 2>>] >>
  /\ nextRule = 3
  /\ remoteChanges = 0
  /\ spc = "idle"
  /\ sArgs = NoSArgs
  /\ sLocal = NoLocal
  /\ sRequests = <<>>
  /\ sCalls = <<>>
  /\ sResult = NoResult

\* A tool is invoked with validated arguments; its handler awaits the
\* metadata read.
SheetsInvoke ==
  /\ spc = "idle"
  /\ \E a \in SheetsArgs :
       /\ (a.op = "addConditionalFormatRule") => (nextRule <= MaxRuleId)
       /\ sArgs' = a
  /\ spc' = "meta"
  /\ sLocal' = NoLocal
  /\ sRequests' = <<>>
  /\ sCalls' = <<>>
  /\ sResult' = NoResult
  /\ UNCHANGED <<sheetsRemote, nextRule, remoteChanges>>
  /\ UNCHANGED <<dvars, pvars, avars>>

\* The result has been delivered; nothing of the invocation is kept.
SheetsReturn ==
  /\ spc = "done"
  /\ spc' = "idle"
  /\ sArgs' = NoSArgs
  /\ sLocal' = NoLocal
  /\ sRequests' = <<>>
  /\ sCalls' = <<>>
  /\ sResult' = NoResult
  /\ UNCHANGED <<sheetsRemote, nextRule, remoteChanges>>
  /\ UNCHANGED <<dvars, pvars, avars>>

\* The handler continues after the read that completes its plan: it throws,
\* returns without a batch (returnsEmpty: an empty list is not submitted), or
\* awaits the batchUpdate.
Continue(plan, returnsEmpty) ==
  /\ sCalls' = Append(sCalls, GetCall("ok", sheetsRemote))
  /\ IF plan.error # "none"
       THEN /\ spc' = "done"
            /\ sResult' = ErrorResult(plan.error)
            /\ sRequests' = <<>>
       ELSE IF returnsEmpty /\ plan.requests = <<>>
         THEN /\ spc' = "done"
              /\ sResult' = OkResult(sArgs)
              /\ sRequests' = <<>>
         ELSE /\ spc' = "submit"
              /\ sResult' = sResult
              /\ sRequests' = plan.requests
  /\ UNCHANGED <<sheetsRemote, nextRule, sArgs, remoteChanges>>
  /\ UNCHANGED <<dvars, pvars, avars>>

FormatCellsRead ==
  /\ spc = "meta" /\ sArgs.op = "formatCells"
  /\ Continue(formatCells(sheetsRemote, sArgs.range, sArgs.format), FALSE)
  /\ UNCHANGED sLocal

FreezeRead ==
  /\ spc = "meta" /\ sArgs.op = "freezeRowsAndColumns"
  /\ Continue(freezeRowsAndColumns(sheetsRemote, sArgs.named, sArgs.sheetName,
                                   sArgs.frozenRows, sArgs.frozenColumns), FALSE)
  /\ UNCHANGED sLocal

\* setDropdownValidation after its first metadata read: without a
\* sourceRange the request is complete, with one the handler awaits the
\* second metadata read.
DropdownRead ==
  /\ spc = "meta" /\ sArgs.op = "setDropdownValidation"
  /\ LET target == dropdownTarget(sheetsRemote, sArgs.range)
     IN IF target.error # "none"
          THEN Continue(Throw(target.error), FALSE) /\ UNCHANGED sLocal
          ELSE IF sArgs.hasSource /\ sArgs.sourceRange # <<>>
            THEN /\ sCalls' = Append(sCalls, GetCall("ok", sheetsRemote))
                 /\ spc' = "meta2"
                 /\ sLocal' = [sheetId |-> target.gridRange.sheetId, gridRange |-> target.gridRange]
                 /\ UNCHANGED <<sheetsRemote, nextRule, sArgs, sRequests, sResult, remoteChanges>>
                 /\ UNCHANGED <<dvars, pvars, avars>>
            ELSE Continue(Submit(dropdownListRequest(target.gridRange, sArgs.values)), FALSE)
                 /\ UNCHANGED sLocal

DropdownSourceRead ==
  /\ spc = "meta2" /\ sArgs.op = "setDropdownValidation"
  /\ Continue(dropdownSource(sheetsRemote, sLocal.gridRange, sArgs.sourceRange), FALSE)
  /\ UNCHANGED sLocal

FormatSpreadsheetRead ==
  /\ spc = "meta" /\ sArgs.op = "formatSpreadsheet"
  /\ Continue(batchFormat(sheetsRemote, sArgs.sheetName, sArgs.operations), TRUE)
  /\ UNCHANGED sLocal

DeleteRowsRead ==
  /\ spc = "meta" /\ sArgs.op = "deleteSpreadsheetRows"
  /\ Continue(deleteRows(sheetsRemote, sArgs.sheetName, sArgs.startRow, sArgs.endRow), FALSE)
  /\ UNCHANGED sLocal

AddRuleRead ==
  /\ spc = "meta" /\ sArgs.op = "addConditionalFormatRule"
  /\ Continue(addConditionalFormatRuleTool(sheetsRemote, sArgs.sheetName, sArgs.range), FALSE)
  /\ UNCHANGED sLocal

DeleteRuleRead ==
  /\ spc = "meta" /\ sArgs.op = "deleteConditionalFormatRule"
  /\ Continue(deleteConditionalFormatRuleTool(sheetsRemote, sArgs.sheetName, sArgs.ruleIndex),
              FALSE)
  /\ UNCHANGED sLocal

\* clearConditionalFormatRules tool after its metadata read (part_002 24-33):
\* the sheet id is looked up, then the helper awaits its own rule read.
ClearRulesMetadataRead ==
  /\ spc = "meta" /\ sArgs.op = "clearConditionalFormatRules"
  /\ LET r == findSheetByTitle(sheetsRemote, sArgs.sheetName)
     IN IF r.error # "none"
          THEN Continue(Throw(r.error), FALSE) /\ UNCHANGED sLocal
          ELSE /\ sCalls' = Append(sCalls, GetCall("ok", sheetsRemote))
               /\ spc' = "rules"
               /\ sLocal' = [NoLocal EXCEPT !.sheetId = r.sheetId]
               /\ UNCHANGED <<sheetsRemote, nextRule, sArgs, sRequests, sResult, remoteChanges>>
               /\ UNCHANGED <<dvars, pvars, avars>>

\* clearConditionalFormatRules helper after its rule read
ClearRulesRuleRead ==
  /\ spc = "rules" /\ sArgs.op = "clearConditionalFormatRules"
  /\ Continue(clearConditionalFormatRules(sheetsRemote, sLocal.sheetId), TRUE)
  /\ UNCHANGED sLocal

\* A metadata or rule read fails: the helper's UserError reaches the caller.
ReadFails ==
  /\ spc \in {"meta", "meta2", "rules"}
  /\ \E code \in RemoteErrorCodes :
       /\ sCalls' = Append(sCalls, GetCall(code, <<>>))
       /\ sResult' = ErrorResult(ErrorOf(code))
  /\ spc' = "done"
  /\ UNCHANGED <<sheetsRemote, nextRule, sArgs, sLocal, sRequests, remoteChanges>>
  /\ UNCHANGED <<dvars, pvars, avars>>

\* The single batchUpdate is accepted: the remote applies the whole batch.
BatchUpdateOk ==
  /\ spc = "submit"
  /\ LET st == ApplyBatch(sheetsRemote, nextRule, sRequests)
     IN /\ st.ok
        /\ sheetsRemote' = st.sheets
        /\ nextRule' = st.next
  /\ sCalls' = Append(sCalls, BatchUpdateCall("ok", sRequests))
  /\ sResult' = OkResult(sArgs)
  /\ spc' = "done"
  /\ UNCHANGED <<sArgs, sLocal, sRequests, remoteChanges>>
  /\ UNCHANGED <<dvars, pvars, avars>>

\* The batchUpdate is rejected (unknown sheet id, rule index out of range,
\* permission, transient failure): nothing of the batch is applied.
BatchUpdateFails ==
  /\ spc = "submit"
  /\ \E code \in RemoteErrorCodes :
       /\ sCalls' = Append(sCalls, BatchUpdateCall(code, sRequests))
       /\ sResult' = ErrorResult(ErrorOf(code))
  /\ spc' = "done"
  /\ UNCHANGED <<sheetsRemote, nextRule, sArgs, sLocal, sRequests, remoteChanges>>
  /\ UNCHANGED <<dvars, pvars, avars>>

\* ------------------------------------------------------------------------
\* Chained deleteSpreadsheetRows calls against a sheet whose rows are tracked
\* ------------------------------------------------------------------------
MaxRowCalls == 2

\* The sheet has more rows than any call addresses.
GridRows == MaxEndRow + 2

\* Each row of the grid carries its original 1-based row number; deletions
\* lists the deleteDimension requests the sheet has accepted.
RowsInit ==
  /\ sheetsRemote = << [title |-> <<"S">>, sheetId |-> 0, rules |-> <<>>,
                        rows |-> [r \in 1..GridRows |-> r], deletions |-> <<>>] >>
  /\ nextRule = 1
  /\ remoteChanges = 0
  /\ spc = "idle"
  /\ sArgs = NoSArgs
  /\ sLocal = NoLocal
  /\ sRequests = <<>>
  /\ sCalls = <<>>
  /\ sResult = NoResult

\* The caller issues one more deleteSpreadsheetRows call.
DeleteRowsInvoke ==
  /\ Len(sheetsRemote[1].deletions) < MaxRowCalls
  /\ SheetsInvoke
  /\ sArgs'.op = "deleteSpreadsheetRows"

RowsNext ==
  \/ DeleteRowsInvoke
  \/ DeleteRowsRead
  \/ ReadFails
  \/ BatchUpdateOk
  \/ BatchUpdateFails
  \/ SheetsReturn

SheetsNext ==
  \/ SheetsInvoke
  \/ SheetsReturn
  \/ FormatCellsRead
  \/ FreezeRead
  \/ DropdownRead
  \/ DropdownSourceRead
  \/ FormatSpreadsheetRead
  \/ DeleteRowsRead
  \/ AddRuleRead
  \/ DeleteRuleRead
  \/ ClearRulesMetadataRead
  \/ ClearRulesRuleRead
  \/ ReadFails
  \/ BatchUpdateOk
  \/ BatchUpdateFails
  \/ RemoteAddSheet
  \/ RemoteDeleteSheet
  \/ RemoteRenameSheet
  \/ RemoteRecreateSheet
  \/ RemoteAddRule
  \/ RemoteDeleteRule

\* ========================================================================
\* Part 3: calls of the pure helper functions
\* ========================================================================
MaxColumn == 27
MaxParseRow == 10
MaxTextLen == 4

NoCall == [fn |-> "none"]

PureInit ==
  /\ fnCall = NoCall
  /\ fnResult = NoCall

\* All texts of length at most n over the characters of alphabet
RECURSIVE TextsUpTo(_, _)
TextsUpTo(alphabet, n) ==
  IF n = 0 THEN { <<>> }
  ELSE LET shorter == TextsUpTo(alphabet, n - 1)
       IN shorter \cup { Append(s, c) : s \in { x \in shorter : Len(x) = n - 1 }, c \in alphabet }

\* String.prototype.toLowerCase / toUpperCase on the letters A-Z, a-z
ToLowerChar(c) == IF IsUpper(c) THEN LowerLetters[CHOOSE i \in 1..26 : UpperLetters[i] = c] ELSE c
ToUpperChar(c) == IF IsLower(c) THEN UpperLetters[CHOOSE i \in 1..26 : LowerLetters[i] = c] ELSE c
ToLowerCase(s) == [i \in 1..Len(s) |-> ToLowerChar(s[i])]
ToUpperCase(s) == [i \in 1..Len(s) |-> ToUpperChar(s[i])]

\* Range texts written from their coordinates: 0-based column indexes
\* c1, c2 as letters, 1-based row numbers r1, r2 in decimal.
RangeShapes == { "rectangle", "cell", "rows", "row", "columns", "column" }

RangeOrigins ==
  { [shape |-> "rectangle", c1 |-> c1, r1 |-> r1, c2 |-> c2, r2 |-> r2] :
      c1 \in 0..MaxColumn, c2 \in 0..MaxColumn, r1 \in 0..MaxParseRow, r2 \in 0..MaxParseRow }
  \cup { [shape |-> "cell", c1 |-> c1, r1 |-> r1, c2 |-> c1, r2 |-> r1] :
           c1 \in 0..MaxColumn, r1 \in 0..MaxParseRow }
  \cup { [shape |-> "rows", c1 |-> 0, r1 |-> r1, c2 |-> 0, r2 |-> r2] :
           r1 \in 0..MaxParseRow, r2 \in 0..MaxParseRow }
  \cup { [shape |-> "row", c1 |-> 0, r1 |-> r1, c2 |-> 0, r2 |-> r1] : r1 \in 0..MaxParseRow }
  \cup { [shape |-> "columns", c1 |-> c1, r1 |-> 0, c2 |-> c2, r2 |-> 0] :
           c1 \in 0..MaxColumn, c2 \in 0..MaxColumn }
  \cup { [shape |-> "column", c1 |-> c1, r1 |-> 0, c2 |-> c1, r2 |-> 0] : c1 \in 0..MaxColumn }

RangeTextOf(o) ==
  LET col1 == ColumnLoop(o.c1 + 1, <<>>)
      col2 == ColumnLoop(o.c2 + 1, <<>>)
      row1 == DecimalDigits(o.r1)
      row2 == DecimalDigits(o.r2)
  IN CASE o.shape = "rectangle" -> col1 \o row1 \o <<":">> \o col2 \o row2
       [] o.shape = "cell" -> col1 \o row1
       [] o.shape = "rows" -> row1 \o <<":">> \o row2
       [] o.shape = "row" -> row1
       [] o.shape = "columns" -> col1 \o <<":">> \o col2
       [] OTHER -> col1

NoOrigin == [shape |-> "text", c1 |-> 0, r1 |-> 0, c2 |-> 0, r2 |-> 0]

ParseAlphabet == { "A", "b", "1", "0", ":", "$" }

\* parseA1ToGridRange(text, 0) on a range text written from coordinates, in
\* upper or lower case
ParseWrittenRange ==
  /\ fnCall = NoCall
  /\ \E o \in RangeOrigins, lower \in BOOLEAN :
       LET text == IF lower THEN ToLowerCase(RangeTextOf(o)) ELSE RangeTextOf(o)
       IN /\ fnCall' = [fn |-> "parseA1ToGridRange", arg |-> text, origin |-> o]
          /\ fnResult' = parseA1ToGridRange(text, 0)
  /\ UNCHANGED <<dvars, svars, avars>>

\* parseA1ToGridRange(text, 0) on any short text
ParseAnyText ==
  /\ fnCall = NoCall
  /\ \E text \in TextsUpTo(ParseAlphabet, MaxTextLen) :
       /\ fnCall' = [fn |-> "parseA1ToGridRange", arg |-> text, origin |-> NoOrigin]
       /\ fnResult' = parseA1ToGridRange(text, 0)
  /\ UNCHANGED <<dvars, svars, avars>>

\* The call has returned to its caller.
PureReturn ==
  /\ fnCall # NoCall
  /\ fnCall' = NoCall
  /\ fnResult' = NoCall
  /\ UNCHANGED <<dvars, svars, avars>>

ParseNext == ParseWrittenRange \/ ParseAnyText \/ PureReturn

\* The metadata of a spreadsheet with the one sheet "S"
OneSheet == << [title |-> <<"S">>, sheetId |-> 0, rules |-> <<>>] >>

\* The grid ranges the three range parsers of the server submit for one
\* text: batchFormat for a cellFormats entry and for a merges entry,
\* parseA1ToGridRange as formatCells and setDropdownValidation call it, and
\* the addConditionalFormatRule tool.
GridRangesOf(text) ==
  [cellFormat |-> batchFormat(OneSheet, <<"S">>,
                    [NoOperations EXCEPT !.cellFormats =
                       << [CellFormat(text) EXCEPT !.bold = [given |-> TRUE, v |-> TRUE]] >>]),
   merge |-> batchFormat(OneSheet, <<"S">>, [NoOperations EXCEPT !.merges = << text >>]),
   helper |-> parseA1ToGridRange(text, 0),
   tool |-> addConditionalFormatRuleTool(OneSheet, <<"S">>, text)]

\* Rectangles and cells whose text the parsers are compared on: every first
\* corner, with a second corner in the first row or column, in the row or
\* column of the first corner, or in the last row or column.
ComparedOrigins ==
  { o \in RangeOrigins :
      /\ o.shape \in {"rectangle", "cell"}
      /\ o.c2 \in {0, o.c1, MaxColumn}
      /\ o.r2 \in {0, o.r1, MaxParseRow} }

\* The three parsers on a rectangle or single-cell text written from
\* coordinates, in upper or lower case
GridRangesOfWrittenRange ==
  /\ fnCall = NoCall
  /\ \E o \in ComparedOrigins, lower \in BOOLEAN :
       LET text == IF lower THEN ToLowerCase(RangeTextOf(o)) ELSE RangeTextOf(o)
       IN /\ fnCall' = [fn |-> "gridRanges", arg |-> text, origin |-> o]
          /\ fnResult' = GridRangesOf(text)
  /\ UNCHANGED <<dvars, svars, avars>>

\* The three parsers on any short text
GridRangesOfAnyText ==
  /\ fnCall = NoCall
  /\ \E text \in TextsUpTo(ParseAlphabet, MaxTextLen) :
       /\ fnCall' = [fn |-> "gridRanges", arg |-> text, origin |-> NoOrigin]
       /\ fnResult' = GridRangesOf(text)
  /\ UNCHANGED <<dvars, svars, avars>>

RangesNext == GridRangesOfWrittenRange \/ GridRangesOfAnyText \/ PureReturn

MaxLetters == 3
MaxColumnIndex == 800

LetterAlphabet == { "A", "B", "Z", "a", "m", "z" }

\* colLettersToIndex(col) on a non-empty letter text, and a1ToRowCol on the
\* same letters followed by row 1
DecodeLetters ==
  /\ fnCall = NoCall
  /\ \E col \in TextsUpTo(LetterAlphabet, MaxLetters) \ { <<>> } :
       /\ fnCall' = [fn |-> "colLettersToIndex", arg |-> col]
       /\ fnResult' = [index |-> colLettersToIndex(col), cell |-> a1ToRowCol(col \o <<"1">>)]
  /\ UNCHANGED <<dvars, svars, avars>>

\* rowColToA1(row, col), negative arguments included
EncodeCell ==
  /\ fnCall = NoCall
  /\ \E row \in -1..MaxParseRow, col \in -1..MaxColumnIndex :
       /\ fnCall' = [fn |-> "rowColToA1", arg |-> [row |-> row, col |-> col]]
       /\ fnResult' = rowColToA1(row, col)
  /\ UNCHANGED <<dvars, svars, avars>>

ColumnsNext == DecodeLetters \/ EncodeCell \/ PureReturn

MaxHexLen == 8

HexDigitsUsed == { "0", "F", "f", "a", "b", "C" }
OtherChars == { "g", "#", " ", "-", "+", "x" }

\* 3 or 6 hexadecimal digits
HexBodies(digits) == { b \in TextsUpTo(digits, 6) : Len(b) \in {3, 6} }

WithHash(hash, body) == IF hash THEN <<"#">> \o body ELSE body

\* hexToRgb(hex) on 3 or 6 hexadecimal digits, with or without '#'
HexWellFormed ==
  /\ fnCall = NoCall
  /\ \E hash \in BOOLEAN, body \in HexBodies(HexDigitsUsed) :
       /\ fnCall' = [fn |-> "hexToRgb", arg |-> WithHash(hash, body)]
       /\ fnResult' = hexToRgb(WithHash(hash, body))
  /\ UNCHANGED <<dvars, svars, avars>>

\* hexToRgb(hex) on such a text with one character replaced by another one
HexOneCharReplaced ==
  /\ fnCall = NoCall
  /\ \E hash \in BOOLEAN, body \in HexBodies({"1", "F"}), c \in OtherChars :
       \E k \in 1..Len(WithHash(hash, body)) :
         LET hex == [WithHash(hash, body) EXCEPT ![k] = c]
         IN /\ fnCall' = [fn |-> "hexToRgb", arg |-> hex]
            /\ fnResult' = hexToRgb(hex)
  /\ UNCHANGED <<dvars, svars, avars>>

\* hexToRgb(hex) on hexadecimal digits of any length, the empty text included
HexAnyLength ==
  /\ fnCall = NoCall
  /\ \E hash \in BOOLEAN, body \in TextsUpTo({"0", "F", "a"}, MaxHexLen) :
       /\ fnCall' = [fn |-> "hexToRgb", arg |-> WithHash(hash, body)]
       /\ fnResult' = hexToRgb(WithHash(hash, body))
  /\ UNCHANGED <<dvars, svars, avars>>

HexNext == HexWellFormed \/ HexOneCharReplaced \/ HexAnyLength \/ PureReturn

\* ========================================================================
\* Part 4: updateScriptFile (src/googleAppsScriptApiHelpers.ts)
\* ========================================================================
MaxUpdates == 2

\* Two invocations run at a time, interleaved at their remote calls.
Invocations == {1, 2}

ScriptFile(name, type, source) == [name |-> name, type |-> type, source |-> source]

\* Project contents at the start: a project whose files include two files
\* of the same name and different types, and a content without files.
ScriptContents ==
  { << ScriptFile("appsscript", "JSON", "m0"),
       ScriptFile("Code", "SERVER_JS", "c0"),
       ScriptFile("Code", "HTML", "h0") >>,
    << >> }

UpdateArgs == [fileName : {"Code", "Util"}, source : {"a", "b"}, fileType : {"SERVER_JS", "HTML"}]

NoUpdateArgs == [fileName |-> "", source |-> "", fileType |-> ""]

updateScriptFileTargetOnly(files, fileName, newSource, fileType) ==
  IF \E i \in 1..Len(files) : files[i].name = fileName
    THEN [i \in 1..Len(SelectSeq(files, LAMBDA f : f.name = fileName)) |->
            [SelectSeq(files, LAMBDA f : f.name = fileName)[i] EXCEPT !.source = newSource]]
    ELSE << ScriptFile(fileName, fileType, newSource) >>

updateScriptFileRetyped(files, fileName, newSource, fileType) ==
  LET updatedFiles == [i \in 1..Len(files) |->
                         IF files[i].name = fileName
                           THEN ScriptFile(fileName, fileType, newSource)
                           ELSE files[i]]
      fileFound == \E i \in 1..Len(files) : files[i].name = fileName
  IN IF fileFound THEN updatedFiles
     ELSE Append(updatedFiles, ScriptFile(fileName, fileType, newSource))

\* updateScriptFile, lines 107-128: the list handed to updateScriptContent,
\* computed from the files read.
updateScriptFile(files, fileName, newSource, fileType) ==
  LET updatedFiles == [i \in 1..Len(files) |->
                         IF files[i].name = fileName
                           THEN [files[i] EXCEPT !.source = newSource]
                           ELSE files[i]]
      fileFound == \E i \in 1..Len(files) : files[i].name = fileName
  IN IF fileFound THEN updatedFiles
     ELSE Append(updatedFiles, ScriptFile(fileName, fileType, newSource))

\* Statuses of a failed remote call
ScriptErrorCodes == { "404", "403", "400", "503" }

\* getScriptContent's catch, lines 19-27
GetContentError(code) ==
  CASE code = "404" -> "ScriptNotFound"
    [] code = "403" -> "PermissionDenied"
    [] OTHER -> "FailedToGetContent"

\* updateScriptContent's catch, lines 46-74
UpdateContentError(code) ==
  CASE code = "404" -> "ScriptNotFound"
    [] code = "403" -> "PermissionDenied"
    [] code = "400" -> "InvalidScriptContent"
    [] OTHER -> "FailedToUpdateContent"

ScriptBegin ==
  /\ updatesStarted = 0
  /\ upc = [p \in Invocations |-> "idle"]
  /\ uArgs = [p \in Invocations |-> NoUpdateArgs]
  /\ uContent = [p \in Invocations |-> <<>>]
  /\ uFiles = [p \in Invocations |-> <<>>]
  /\ uResult = [p \in Invocations |-> "none"]

\* The update tool runs on any of the project contents.
ScriptAnyInit == scriptRemote \in ScriptContents /\ ScriptBegin

\* Where the update tool does not run, the project stays without files.
ScriptInit == scriptRemote = <<>> /\ ScriptBegin

\* The tool is invoked with validated arguments; updateScriptFile awaits
\* getScriptContent.
UpdateInvoke(p) ==
  /\ upc[p] = "idle"
  /\ updatesStarted < MaxUpdates
  /\ updatesStarted' = updatesStarted + 1
  /\ \E a \in UpdateArgs : uArgs' = [uArgs EXCEPT ![p] = a]
  /\ upc' = [upc EXCEPT ![p] = "read"]
  /\ UNCHANGED <<scriptRemote, uContent, uFiles, uResult>>
  /\ UNCHANGED <<dvars, svars, pvars>>

\* getScriptContent resolves: updatedFiles is built from the files read and
\* the helper awaits updateScriptContent.
UpdateRead(p) ==
  /\ upc[p] = "read"
  /\ uContent' = [uContent EXCEPT ![p] = scriptRemote]
  /\ uFiles' = [uFiles EXCEPT ![p] =
                  updateScriptFile(scriptRemote, uArgs[p].fileName, uArgs[p].source,
                                   uArgs[p].fileType)]
  /\ upc' = [upc EXCEPT ![p] = "write"]
  /\ UNCHANGED <<scriptRemote, updatesStarted, uArgs, uResult>>
  /\ UNCHANGED <<dvars, svars, pvars>>

\* getScriptContent rejects: its UserError reaches the caller.
UpdateReadFails(p) ==
  /\ upc[p] = "read"
  /\ \E code \in ScriptErrorCodes : uResult' = [uResult EXCEPT ![p] = GetContentError(code)]
  /\ upc' = [upc EXCEPT ![p] = "done"]
  /\ UNCHANGED <<scriptRemote, updatesStarted, uArgs, uContent, uFiles>>
  /\ UNCHANGED <<dvars, svars, pvars>>

\* updateScriptContent resolves: the project's files are replaced by the
\* list submitted, and the tool returns its success text.
UpdateWriteOk(p) ==
  /\ upc[p] = "write"
  /\ scriptRemote' = uFiles[p]
  /\ uResult' = [uResult EXCEPT ![p] = "Success"]
  /\ upc' = [upc EXCEPT ![p] = "done"]
  /\ UNCHANGED <<updatesStarted, uArgs, uContent, uFiles>>
  /\ UNCHANGED <<dvars, svars, pvars>>

\* updateScriptContent rejects: the project is left as it is.
UpdateWriteFails(p) ==
  /\ upc[p] = "write"
  /\ \E code \in ScriptErrorCodes : uResult' = [uResult EXCEPT ![p] = UpdateContentError(code)]
  /\ upc' = [upc EXCEPT ![p] = "done"]
  /\ UNCHANGED <<scriptRemote, updatesStarted, uArgs, uContent, uFiles>>
  /\ UNCHANGED <<dvars, svars, pvars>>

\* The result has been delivered; nothing of the invocation is kept.
UpdateReturn(p) ==
  /\ upc[p] = "done"
  /\ upc' = [upc EXCEPT ![p] = "idle"]
  /\ uArgs' = [uArgs EXCEPT ![p] = NoUpdateArgs]
  /\ uContent' = [uContent EXCEPT ![p] = <<>>]
  /\ uFiles' = [uFiles EXCEPT ![p] = <<>>]
  /\ uResult' = [uResult EXCEPT ![p] = "none"]
  /\ UNCHANGED <<scriptRemote, updatesStarted>>
  /\ UNCHANGED <<dvars, svars, pvars>>

ScriptNext ==
  \E p \in Invocations :
    \/ UpdateInvoke(p)
    \/ UpdateRead(p)
    \/ UpdateReadFails(p)
    \/ UpdateWriteOk(p)
    \/ UpdateWriteFails(p)
    \/ UpdateReturn(p)

\* ========================================================================
\* Specifications
\* ========================================================================
DocsInit ==
  /\ dpc = "idle"
  /\ dArgs = NoArgs
  /\ dCell = NoCell
  /\ dNewEnd = 0
  /\ dRequests = <<>>
  /\ dSubmitted = <<>>
  /\ dResult = "none"

\* The tool is invoked with validated arguments; the handler awaits
\* getTableCellRange.
EditTableCellInvoke ==
  /\ dpc \in {"idle", "done"}
  /\ \E a \in EditArgs : dArgs' = a
  /\ dpc' = "range"
  /\ dCell' = NoCell
  /\ dNewEnd' = 0
  /\ dRequests' = <<>>
  /\ dSubmitted' = <<>>
  /\ dResult' = "none"
  /\ UNCHANGED <<svars, pvars, avars>>

\* getTableCellRange throws (not a table, row or column out of range, read
\* failure): the handler rethrows without building or submitting anything.
EditTableCellRangeFails ==
  /\ dpc = "range"
  /\ dpc' = "done"
  /\ dResult' = "Error"
  /\ UNCHANGED <<dArgs, dCell, dNewEnd, dRequests, dSubmitted>>
  /\ UNCHANGED <<svars, pvars, avars>>

\* getTableCellRange returns; the handler builds the requests (lines 57-108)
\* and either returns the no-op text (line 111) or awaits the batch submit.
EditTableCellBuild ==
  /\ dpc = "range"
  /\ \E c \in CellRanges :
       LET plan == EditTableCellPlan(c, dArgs) IN
         /\ dCell' = c
         /\ dRequests' = plan.requests
         /\ dNewEnd' = plan.newTextEnd
         /\ IF NoChangesSpecified(plan.requests)
              THEN /\ dpc' = "done"
                   /\ dResult' = "NoChanges"
                   /\ dSubmitted' = dSubmitted
              ELSE /\ dpc' = "submit"
                   /\ dResult' = "none"
                   /\ dSubmitted' = Append(dSubmitted, plan.requests)
  /\ UNCHANGED dArgs
  /\ UNCHANGED <<svars, pvars, avars>>

\* executeBatchUpdateWithSplitting resolves: the success text is returned.
EditTableCellSubmitOk ==
  /\ dpc = "submit"
  /\ dpc' = "done"
  /\ dResult' = "Success"
  /\ UNCHANGED <<dArgs, dCell, dNewEnd, dRequests, dSubmitted>>
  /\ UNCHANGED <<svars, pvars, avars>>

\* executeBatchUpdateWithSplitting rejects: the error is rethrown.
EditTableCellSubmitFails ==
  /\ dpc = "submit"
  /\ dpc' = "done"
  /\ dResult' = "Error"
  /\ UNCHANGED <<dArgs, dCell, dNewEnd, dRequests, dSubmitted>>
  /\ UNCHANGED <<svars, pvars, avars>>

DocsNext ==
  \/ EditTableCellInvoke
  \/ EditTableCellRangeFails
  \/ EditTableCellBuild
  \/ EditTableCellSubmitOk
  \/ EditTableCellSubmitFails

vars == <<dvars, svars, pvars, avars>>

Init == DocsInit /\ SheetsInit /\ PureInit /\ ScriptInit

\* The editTableCell tool alone
SpecDocs == Init /\ [][DocsNext]_vars

\* The Sheets tools against a spreadsheet other clients also change
SpecSheets == Init /\ [][SheetsNext]_vars

\* Calls of parseA1ToGridRange
SpecParse == Init /\ [][ParseNext]_vars

\* Calls of colLettersToIndex, a1ToRowCol and rowColToA1
SpecColumns == Init /\ [][ColumnsNext]_vars

\* Calls of hexToRgb
SpecHex == Init /\ [][HexNext]_vars

\* Chained deleteSpreadsheetRows calls against one sheet
InitRows == DocsInit /\ RowsInit /\ PureInit /\ ScriptInit

SpecRows == InitRows /\ [][RowsNext]_vars

\* The range parsers of batchFormat, parseA1ToGridRange and the
\* addConditionalFormatRule tool on the same texts
SpecRanges == Init /\ [][RangesNext]_vars

\* Interleaved updateAppsScriptFile invocations on one script project
InitScript == DocsInit /\ SheetsInit /\ PureInit /\ ScriptAnyInit

SpecScript == InitScript /\ [][ScriptNext]_vars

\* ========================================================================
\* Properties of editTableCell
\* ========================================================================

\* The handler has built its requests list in the invocation in flight.
DocsBuilt == dpc = "submit" \/ (dpc = "done" /\ dCell # NoCell)

HasKind(reqs, k) == \E i \in 1..Len(reqs) : reqs[i].kind = k

KindRank(k) ==
  CASE k = "deleteContentRange" -> 1
    [] k = "insertText" -> 2
    [] k = "updateTextStyle" -> 3
    [] k = "updateParagraphStyle" -> 4
    [] OTHER -> 5

\* C1: with a non-empty textContent of length n on the cell range [s, e), the
\* requests start with deleteContentRange [s, e) iff e > s (no delete at all
\* for an empty cell), then insertText at s with the given text, then, when
\* a text style is requested and yields a request, updateTextStyle [s, s+n).
C1_DeleteInsertStyle ==
  (DocsBuilt /\ dArgs.textContent.given /\ Len(dArgs.textContent.chars) > 0) =>
    LET s == dCell.startIndex
        e == dCell.endIndex
        n == Len(dArgs.textContent.chars)
        k == IF e > s THEN 1 ELSE 0
    IN /\ (e > s) <=> (Len(dRequests) >= 1 /\ dRequests[1] = DeleteContentRange(s, e))
       /\ (e = s) => ~HasKind(dRequests, "deleteContentRange")
       /\ Len(dRequests) >= k + 1
       /\ dRequests[k + 1] = InsertText(s, dArgs.textContent.chars)
       /\ (dArgs.textStyle = "set") =>
            /\ Len(dRequests) >= k + 2
            /\ dRequests[k + 2] =
                 [kind |-> "updateTextStyle", startIndex |-> s, endIndex |-> s + n, text |-> <<>>]

\* The example of C1: s = 10, e = 15, n = 8 gives delete [10,15), insert at
\* 10 and style [10,18), submitted with success.
C1_Witness ==
  /\ dpc = "done"
  /\ dResult = "Success"
  /\ dCell = [startIndex |-> 10, endIndex |-> 15]
  /\ dArgs.textContent.chars = <<"n", "e", "w", "t", "e", "x", "t", "8">>
  /\ dRequests =
       << DeleteContentRange(10, 15),
          InsertText(10, <<"n", "e", "w", "t", "e", "x", "t", "8">>),
          [kind |-> "updateTextStyle", startIndex |-> 10, endIndex |-> 18, text |-> <<>>] >>

\* C2: the built list, and every submitted batch, holds at most one request
\* of each kind, in the order deleteContentRange, insertText, updateTextStyle,
\* updateParagraphStyle.
C2_FixedOrder ==
  /\ \A i, j \in 1..Len(dRequests) :
       i < j => KindRank(dRequests[i].kind) < KindRank(dRequests[j].kind)
  /\ \A b \in 1..Len(dSubmitted) :
       \A i, j \in 1..Len(dSubmitted[b]) :
         i < j => KindRank(dSubmitted[b][i].kind) < KindRank(dSubmitted[b][j].kind)

\* All four kinds in one submitted batch.
C2_Witness ==
  /\ dResult = "Success"
  /\ Len(dSubmitted) = 1
  /\ Len(dSubmitted[1]) = 4

\* C3 as stated: newEnd = start + length(text) when an insertText request is
\* emitted and the cell's original end whenever none is emitted (textContent
\* absent or the empty string); a text-style request covers [start, newEnd)
\* and is emitted only when newEnd > start.
C3_Original ==
  DocsBuilt =>
    LET s == dCell.startIndex
        newEnd == IF HasKind(dRequests, "insertText")
                    THEN s + Len(dArgs.textContent.chars)
                    ELSE dCell.endIndex
    IN /\ dNewEnd = newEnd
       /\ \A i \in 1..Len(dRequests) :
            dRequests[i].kind = "updateTextStyle" =>
              /\ newEnd > s
              /\ dRequests[i].startIndex = s
              /\ dRequests[i].endIndex = newEnd

\* C3 amended: newEnd = start + length(textContent) whenever textContent is
\* given (so newEnd = start for the empty string) and the cell's original end
\* only when textContent is absent; a text-style request covers
\* [start, newEnd) and is emitted only when newEnd > start.
C3_StyleRange ==
  DocsBuilt =>
    LET s == dCell.startIndex
        newEnd == IF dArgs.textContent.given
                    THEN s + Len(dArgs.textContent.chars)
                    ELSE dCell.endIndex
    IN /\ dNewEnd = newEnd
       /\ \A i \in 1..Len(dRequests) :
            dRequests[i].kind = "updateTextStyle" =>
              /\ newEnd > s
              /\ dRequests[i].startIndex = s
              /\ dRequests[i].endIndex = newEnd

\* The empty string on a non-empty cell with a text style: the content is
\* deleted, newEnd is start and no text-style request is emitted.
C3_Witness ==
  /\ DocsBuilt
  /\ dArgs.textContent = [given |-> TRUE, chars |-> <<>>]
  /\ dArgs.textStyle = "set"
  /\ dCell.endIndex > dCell.startIndex
  /\ dNewEnd = dCell.startIndex
  /\ dRequests = <<DeleteContentRange(dCell.startIndex, dCell.endIndex)>>

\* C4 as stated: a requested paragraph style that yields a request is always
\* emitted, over [start, start + length(text) + 1) when an insertText request
\* was emitted and over [start, end + 1) whenever none was emitted.
C4_Original ==
  DocsBuilt =>
    LET s == dCell.startIndex
        paraEnd == IF HasKind(dRequests, "insertText")
                     THEN s + Len(dArgs.textContent.chars) + 1
                     ELSE dCell.endIndex + 1
    IN /\ (dArgs.paragraphStyle = "set") => HasKind(dRequests, "updateParagraphStyle")
       /\ \A i \in 1..Len(dRequests) :
            dRequests[i].kind = "updateParagraphStyle" =>
              /\ dRequests[i].startIndex = s
              /\ dRequests[i].endIndex = paraEnd

\* C4 amended: the range is [start, start + length(textContent) + 1) whenever
\* textContent is given, the empty string included, and [start, end + 1) only
\* when textContent is absent.
C4_ParagraphRange ==
  DocsBuilt =>
    LET s == dCell.startIndex
        paraEnd == IF dArgs.textContent.given
                     THEN s + Len(dArgs.textContent.chars) + 1
                     ELSE dCell.endIndex + 1
    IN /\ (dArgs.paragraphStyle = "set") => HasKind(dRequests, "updateParagraphStyle")
       /\ \A i \in 1..Len(dRequests) :
            dRequests[i].kind = "updateParagraphStyle" =>
              /\ dRequests[i].startIndex = s
              /\ dRequests[i].endIndex = paraEnd

\* The empty string on a non-empty cell with a paragraph style: the request
\* covers [start, start + 1), not [start, end + 1).
C4_Witness ==
  /\ DocsBuilt
  /\ dArgs.textContent = [given |-> TRUE, chars |-> <<>>]
  /\ dArgs.paragraphStyle = "set"
  /\ dCell.endIndex > dCell.startIndex
  /\ HasKind(dRequests, "updateParagraphStyle")
  /\ dRequests[Len(dRequests)].endIndex = dCell.startIndex + 1

\* C5: an invocation that builds zero requests submits no batch and returns
\* the 'No changes specified' text (a returned result, neither the success
\* text nor an error); a batch is submitted only when the list is non-empty,
\* and it is the built list.
C5_NoOpNoSubmit ==
  /\ (DocsBuilt /\ Len(dRequests) = 0) =>
       /\ dSubmitted = <<>>
       /\ dpc = "done"
       /\ dResult = "NoChanges"
  /\ (dSubmitted # <<>>) =>
       /\ Len(dSubmitted) = 1
       /\ Len(dSubmitted[1]) > 0
       /\ dSubmitted[1] = dRequests
  /\ (dResult = "Success") => dSubmitted # <<>>
  /\ (dResult = "NoChanges") => (dSubmitted = <<>> /\ Len(dRequests) = 0)

\* A text style requested on an empty cell, nothing else: zero requests.
C5_Witness ==
  /\ dpc = "done"
  /\ dResult = "NoChanges"
  /\ dArgs.textStyle = "set"
  /\ dCell.endIndex = dCell.startIndex
  /\ dSubmitted = <<>>

\* ========================================================================
\* Properties of the Sheets operations
\* ========================================================================

BatchUpdates == SelectSeq(sCalls, LAMBDA c : c.call = "batchUpdate")

Titles(snapshot) == { snapshot[i].title : i \in 1..Len(snapshot) }

\* The id listed for a title in a metadata response (titles are unique).
IdOfTitle(snapshot, title) ==
  snapshot[CHOOSE i \in 1..Len(snapshot) : snapshot[i].title = title].sheetId

\* C6: when the rule read of clearConditionalFormatRules returns N >= 1 rules
\* for the sheet, one batch of exactly N deleteConditionalFormatRule requests
\* with indices N-1, ..., 0 in this order is submitted; when it returns no
\* rules or no entry for the sheet, no batch is submitted.
C6_ClearDescending ==
  (sArgs.op = "clearConditionalFormatRules" /\ Len(sCalls) >= 2 /\ sCalls[2].status = "ok") =>
    LET snapshot == sCalls[2].response
        id == sLocal.sheetId
        entries == { i \in 1..Len(snapshot) : snapshot[i].sheetId = id }
        N == IF entries = {} THEN 0 ELSE Len(snapshot[CHOOSE i \in entries : TRUE].rules)
    IN IF N = 0
         THEN /\ BatchUpdates = <<>>
              /\ spc = "done"
              /\ sResult.status = "ok"
         ELSE /\ spc \in {"submit", "done"}
              /\ Len(sRequests) = N
              /\ \A k \in 1..N :
                   sRequests[k] = [kind |-> "deleteConditionalFormatRule", sheetId |-> id,
                                   index |-> N - k]
              /\ Len(BatchUpdates) = (IF spc = "done" THEN 1 ELSE 0)
              /\ \A b \in 1..Len(BatchUpdates) : BatchUpdates[b].requests = sRequests

\* Two rules read, the batch deletes index 1 and then index 0, and the
\* sheet is left without rules.
C6_Witness ==
  /\ sArgs.op = "clearConditionalFormatRules"
  /\ spc = "done"
  /\ sResult.status = "ok"
  /\ Len(sCalls) = 3
  /\ Len(sCalls[3].requests) = 2
  /\ sCalls[3].requests[1].index = 1
  /\ sCalls[3].requests[2].index = 0
  /\ \E i \in 1..Len(sheetsRemote) :
       sheetsRemote[i].sheetId = sLocal.sheetId /\ sheetsRemote[i].rules = <<>>

\* C7: deleteRows with 1 <= startRow <= endRow on a sheet found in the
\* metadata read submits exactly one deleteDimension request on ROWS with
\* startIndex = startRow - 1 and endIndex = endRow, so endIndex - startIndex
\* is the count the deleteSpreadsheetRows tool reports.
C7_DeleteRowsIndices ==
  (/\ sArgs.op = "deleteSpreadsheetRows"
   /\ Len(sCalls) >= 1 /\ sCalls[1].status = "ok"
   /\ sArgs.sheetName \in Titles(sCalls[1].response)
   /\ 1 <= sArgs.startRow /\ sArgs.startRow <= sArgs.endRow) =>
    /\ spc \in {"submit", "done"}
    /\ sRequests =
         << [kind |-> "deleteDimension",
             sheetId |-> IdOfTitle(sCalls[1].response, sArgs.sheetName),
             dimension |-> "ROWS",
             startIndex |-> sArgs.startRow - 1, endIndex |-> sArgs.endRow] >>
    /\ Len(BatchUpdates) = (IF spc = "done" THEN 1 ELSE 0)
    /\ \A b \in 1..Len(BatchUpdates) : BatchUpdates[b].requests = sRequests
    /\ (sResult.status = "ok") =>
         sResult.count = sRequests[1].endIndex - sRequests[1].startIndex

\* Rows 3-5 are deleted with startIndex 2 and endIndex 5; 3 rows reported.
C7_Witness ==
  /\ sArgs.op = "deleteSpreadsheetRows"
  /\ sArgs.startRow = 3 /\ sArgs.endRow = 5
  /\ spc = "done"
  /\ sResult.status = "ok"
  /\ sResult.count = 3
  /\ Len(BatchUpdates) = 1
  /\ BatchUpdates[1].requests[1].startIndex = 2
  /\ BatchUpdates[1].requests[1].endIndex = 5

\* The sheet names an invocation looks up, each with the position in sCalls
\* of the metadata read it is looked up in.
SheetLookups ==
  LET target == parseRange(sArgs.range)
      source == parseRange(sArgs.sourceRange)
  IN CASE sArgs.op \in {"formatCells", "setDropdownValidation"} ->
            (IF target.named THEN { [name |-> target.sheetName, read |-> 1] } ELSE {})
            \cup (IF sArgs.hasSource /\ sArgs.sourceRange # <<>> /\ source.named
                    THEN { [name |-> source.sheetName, read |-> 2] } ELSE {})
       [] sArgs.op = "freezeRowsAndColumns" ->
            IF sArgs.named THEN { [name |-> sArgs.sheetName, read |-> 1] } ELSE {}
       [] sArgs.op \in {"formatSpreadsheet", "deleteSpreadsheetRows", "addConditionalFormatRule",
                        "deleteConditionalFormatRule", "clearConditionalFormatRules"} ->
            { [name |-> sArgs.sheetName, read |-> 1] }
       [] OTHER -> {}

\* A sheet name the invocation looked up is absent from the metadata read.
NamedSheetMissing ==
  \E l \in SheetLookups :
    /\ Len(sCalls) >= l.read
    /\ sCalls[l.read].status = "ok"
    /\ l.name \notin Titles(sCalls[l.read].response)

\* C8: in every sheet-addressed operation, when the named sheet title is not
\* in the metadata read of the invocation, the operation fails with the
\* 'Sheet ... not found' error and issues no batchUpdate.
C8_Original ==
  NamedSheetMissing =>
    /\ BatchUpdates = <<>>
    /\ spc # "submit"
    /\ (spc = "done") => (sResult.error = "SheetNotFound")

\* Range texts of the model that are in none of the A1 forms.
MalformedA1 ==
  { <<"A", "1", ":", "B">>, <<"1", "A">>, <<"A", "1", ":">> }

\* The invocation carries a malformed range text or an invalid row pair.
InputMalformed ==
  CASE sArgs.op = "formatCells" -> parseRange(sArgs.range).a1Range \in MalformedA1
    [] sArgs.op = "setDropdownValidation" ->
         \/ parseRange(sArgs.range).a1Range \in MalformedA1
         \/ sArgs.hasSource /\ parseRange(sArgs.sourceRange).a1Range \in MalformedA1
    [] sArgs.op = "formatSpreadsheet" ->
         \/ \E i \in 1..Len(sArgs.operations.cellFormats) :
              sArgs.operations.cellFormats[i].range \in MalformedA1
         \/ \E i \in 1..Len(sArgs.operations.merges) :
              sArgs.operations.merges[i] \in MalformedA1
    [] sArgs.op = "addConditionalFormatRule" -> sArgs.range \in MalformedA1
    [] sArgs.op = "deleteSpreadsheetRows" -> sArgs.startRow > sArgs.endRow
    [] OTHER -> FALSE

C10_Original ==
  (sArgs.op = "freezeRowsAndColumns" /\ Len(sCalls) >= 1 /\ sCalls[1].status = "ok") =>
    LET snapshot == sCalls[1].response
    IN IF sArgs.named
         THEN IF sArgs.sheetName \in Titles(snapshot)
                THEN /\ Len(sRequests) = 1
                     /\ sRequests[1].sheetId = IdOfTitle(snapshot, sArgs.sheetName)
                ELSE /\ spc = "done"
                     /\ sResult.error = "SheetNotFound"
         ELSE IF Len(snapshot) = 0
                THEN /\ spc = "done"
                     /\ sResult.error = "NoSheets"
                ELSE /\ Len(sRequests) = 1
                     /\ sRequests[1].sheetId = snapshot[1].sheetId

\* The requests of the invocation: those built and those submitted.
InvocationRequests ==
  SeqToSet(sRequests)
  \cup UNION { SeqToSet(BatchUpdates[b].requests) : b \in 1..Len(BatchUpdates) }

\* The sheet title the invocation asks to change, when it names one.
RequestedTitle ==
  CASE sArgs.op \in {"formatCells", "setDropdownValidation"} ->
         [given |-> parseRange(sArgs.range).named, title |-> parseRange(sArgs.range).sheetName]
    [] sArgs.op = "freezeRowsAndColumns" -> [given |-> sArgs.named, title |-> sArgs.sheetName]
    [] OTHER -> [given |-> TRUE, title |-> sArgs.sheetName]

\* C11: across invocations interleaved with remote changes to the sheet list
\* (rename, delete, re-create under the same title with a new id), the
\* sheetId of every mutating request equals the id listed for the requested
\* title in a metadata read of the same invocation.
C11_Original ==
  (spc # "idle" /\ RequestedTitle.given) =>
    \A req \in InvocationRequests :
      /\ Len(sCalls) >= 1
      /\ sCalls[1].call = "get" /\ sCalls[1].status = "ok"
      /\ RequestedTitle.title \in Titles(sCalls[1].response)
      /\ RequestSheetId(req) = IdOfTitle(sCalls[1].response, RequestedTitle.title)

\* The top-level userEnteredFormat attributes a formatCells caller supplied.
SuppliedFormatAttributes(format) ==
  { IF a \in {"textFormat.foregroundColor", "textFormat.fontSize", "textFormat.bold",
              "textFormat.italic"}
      THEN "textFormat" ELSE a : a \in format }

\* C12: the field mask of the repeatCell request built by formatCells names
\* exactly the format attributes the caller supplied; an attribute that is
\* not supplied is not in the mask.
C12_Original ==
  (sArgs.op = "formatCells") =>
    \A req \in InvocationRequests :
      SeqToSet(req.fields) = SuppliedFormatAttributes(sArgs.format)

\* The field path that stands in a repeatCell mask for an attribute of
\* userEnteredFormat.
MaskPath(attribute) ==
  CASE attribute = "backgroundColor" -> "userEnteredFormat.backgroundColor"
    [] attribute = "textFormat.foregroundColor" -> "userEnteredFormat.textFormat.foregroundColor"
    [] attribute = "textFormat.fontSize" -> "userEnteredFormat.textFormat.fontSize"
    [] attribute = "textFormat.bold" -> "userEnteredFormat.textFormat.bold"
    [] attribute = "textFormat.italic" -> "userEnteredFormat.textFormat.italic"
    [] attribute = "textFormat.fontFamily" -> "userEnteredFormat.textFormat.fontFamily"
    [] attribute = "horizontalAlignment" -> "userEnteredFormat.horizontalAlignment"
    [] attribute = "verticalAlignment" -> "userEnteredFormat.verticalAlignment"
    [] attribute = "numberFormat" -> "userEnteredFormat.numberFormat"
    [] OTHER -> "userEnteredFormat.wrapStrategy"

\* C13: for every repeatCell request built by batchFormat the paths of the
\* field mask are exactly the attributes populated in userEnteredFormat, and
\* the mask of every updateSheetProperties request built by batchFormat and
\* freezeRowsAndColumns lists frozenRowCount / frozenColumnCount exactly when
\* that property is set.
C13_MaskAgreesWithPopulated ==
  (sArgs.op \in {"formatSpreadsheet", "freezeRowsAndColumns"}) =>
    \A req \in InvocationRequests :
      /\ (req.kind = "repeatCell") =>
           SeqToSet(req.fields) = { MaskPath(a) : a \in DOMAIN req.userEnteredFormat }
      /\ (req.kind = "updateSheetProperties") =>
           /\ ("gridProperties.frozenRowCount" \in SeqToSet(req.fields))
                <=> req.gridProperties.frozenRowCount.given
           /\ ("gridProperties.frozenColumnCount" \in SeqToSet(req.fields))
                <=> req.gridProperties.frozenColumnCount.given

\* batchFormat submitted a repeatCell request for an entry whose background
\* text is no color: the font color, bold, size and alignment are populated
\* and masked, the background is neither.
C13_Witness ==
  /\ sArgs.op = "formatSpreadsheet"
  /\ spc = "done"
  /\ sResult.status = "ok"
  /\ Len(BatchUpdates) = 1
  /\ \E k \in 1..Len(BatchUpdates[1].requests) :
       LET req == BatchUpdates[1].requests[k]
       IN /\ req.kind = "repeatCell"
          /\ DOMAIN req.userEnteredFormat =
               {"textFormat.foregroundColor", "textFormat.fontSize", "textFormat.bold",
                "verticalAlignment"}
          /\ Len(req.fields) = 4

\* ========================================================================
\* Properties of the pure helper functions
\* ========================================================================

AllDigits(s) == s # <<>> /\ \A i \in 1..Len(s) : IsDigit(s[i])
AllLetters(s) == s # <<>> /\ \A i \in 1..Len(s) : IsLetter(s[i])

\* The text is split by a colon into two parts that both satisfy Part.
ColonPair(t, Part(_)) ==
  \E k \in 1..Len(t) :
    t[k] = ":" /\ Part(SubSeq(t, 1, k - 1)) /\ Part(SubSeq(t, k + 1, Len(t)))

\* Letters followed by digits: 'c1r1'
IsCellText(t) ==
  \E k \in 1..(Len(t) - 1) : AllLetters(SubSeq(t, 1, k)) /\ AllDigits(SubSeq(t, k + 1, Len(t)))

IsRectangleText(t) == ColonPair(t, IsCellText)
IsRowBandText(t) == AllDigits(t) \/ ColonPair(t, AllDigits)
IsColumnBandText(t) == AllLetters(t) \/ ColonPair(t, AllLetters)

\* What the claim states for a text written from coordinates
ExpectedGridRange(o) ==
  CASE o.shape \in {"rectangle", "cell"} ->
         [sheetId |-> 0, startRowIndex |-> o.r1 - 1, endRowIndex |-> o.r2,
          startColumnIndex |-> o.c1, endColumnIndex |-> o.c2 + 1]
    [] o.shape \in {"rows", "row"} ->
         [sheetId |-> 0, startRowIndex |-> o.r1 - 1, endRowIndex |-> o.r2]
    [] OTHER ->
         [sheetId |-> 0, startColumnIndex |-> o.c1, endColumnIndex |-> o.c2 + 1]

ParsedWritten == fnCall.fn = "parseA1ToGridRange" /\ fnCall.origin.shape \in RangeShapes
ParsedText == fnCall.fn = "parseA1ToGridRange" /\ fnCall.origin.shape = "text"

\* C14 as stated: rectangle 'c1r1:c2r2', row band 'r1' / 'r1:r2' and column
\* band 'c1' / 'c1:c2' are mapped to their bounds, and any text of none of
\* these three shapes fails with the invalid-format error.
C14_Original ==
  /\ (ParsedWritten /\ fnCall.origin.shape # "cell") =>
       (fnResult.ok /\ fnResult.range = ExpectedGridRange(fnCall.origin))
  /\ (fnCall.fn = "parseA1ToGridRange"
        /\ ~IsRectangleText(fnCall.arg) /\ ~IsRowBandText(fnCall.arg)
        /\ ~IsColumnBandText(fnCall.arg)) => ~fnResult.ok

\* C14 amended: the rectangle shape has a single-cell form 'c1r1' as well,
\* mapped to startRow = r1-1, endRow = r1, startCol = index(c1), endCol =
\* index(c1)+1; the three shapes are mapped as stated, bands without bounds
\* on the other axis, and exactly the texts of none of these shapes fail.
C14_ParseShapes ==
  /\ ParsedWritten =>
       (fnResult.ok /\ fnResult.range = ExpectedGridRange(fnCall.origin))
  /\ (fnCall.fn = "parseA1ToGridRange") =>
       (fnResult.ok <=> (\/ IsRectangleText(fnCall.arg) \/ IsCellText(fnCall.arg)
                         \/ IsRowBandText(fnCall.arg) \/ IsColumnBandText(fnCall.arg)))

\* 'a1:ab10' in lower case is parsed to rows [0, 10), columns [0, 28).
C14_Witness ==
  /\ fnCall.fn = "parseA1ToGridRange"
  /\ fnCall.arg = <<"a", "1", ":", "a", "b", "1", "0">>
  /\ fnResult.ok
  /\ fnResult.range = [sheetId |-> 0, startRowIndex |-> 0, endRowIndex |-> 10,
                       startColumnIndex |-> 0, endColumnIndex |-> 28]

\* An axis of a grid range is well formed: both bounds present with
\* end >= start, or both absent.
AxisWellFormed(range, startField, endField) ==
  IF startField \in DOMAIN range
    THEN endField \in DOMAIN range /\ range[endField] >= range[startField]
    ELSE endField \notin DOMAIN range

\* C15: every grid range parseA1ToGridRange returns, for every text it
\* accepts, has on each axis both bounds present with end >= start or both
\* absent.
C15_Original ==
  (fnCall.fn = "parseA1ToGridRange" /\ fnResult.ok) =>
    /\ AxisWellFormed(fnResult.range, "startRowIndex", "endRowIndex")
    /\ AxisWellFormed(fnResult.range, "startColumnIndex", "endColumnIndex")

\* The column letters at the head of an A1 text
ColumnPart(a1) == Slice(a1, 1, LetterRunEnd(a1, 1))

\* C16: column-letter decoding (colLettersToIndex, the column part of
\* a1ToRowCol) and index-to-letter encoding (the column part of rowColToA1)
\* are mutually inverse with A = 0, Z = 25, AA = 26: encoding the decoded
\* index of a non-empty letter text L yields uppercase(L), decoding the
\* encoded letters of n >= 0 yields n, and rowColToA1 fails on a negative
\* row or column.
C16_ColumnRoundTrip ==
  /\ (fnCall.fn = "colLettersToIndex") =>
       /\ fnResult.index >= 0
       /\ fnResult.cell.ok /\ fnResult.cell.col = fnResult.index
       /\ rowColToA1(0, fnResult.index).ok
       /\ ColumnPart(rowColToA1(0, fnResult.index).a1) = ToUpperCase(fnCall.arg)
       /\ (fnCall.arg = <<"A">>) => (fnResult.index = 0)
       /\ (fnCall.arg = <<"Z">>) => (fnResult.index = 25)
       /\ (fnCall.arg = <<"A", "A">>) => (fnResult.index = 26)
  /\ (fnCall.fn = "rowColToA1") =>
       IF fnCall.arg.row < 0 \/ fnCall.arg.col < 0
         THEN ~fnResult.ok
         ELSE /\ fnResult.ok
              /\ colLettersToIndex(ColumnPart(fnResult.a1)) = fnCall.arg.col
              /\ a1ToRowCol(fnResult.a1) =
                   [ok |-> TRUE, row |-> fnCall.arg.row, col |-> fnCall.arg.col]

\* Column 702 of row 0 is written 'AAA1', which decodes to 702 again.
C16_Witness ==
  /\ fnCall.fn = "rowColToA1"
  /\ fnCall.arg = [row |-> 0, col |-> 702]
  /\ fnResult.ok
  /\ fnResult.a1 = <<"A", "A", "A", "1">>
  /\ colLettersToIndex(ColumnPart(fnResult.a1)) = 702

\* The column texts batchFormat decodes with colLetterToIndex
DecodedColumnTexts ==
  { sArgs.operations.columnWidths[i].column : i \in 1..Len(sArgs.operations.columnWidths) }
  \cup (IF sArgs.operations.hideColumns.given
          THEN { sArgs.operations.hideColumns.startColumn, sArgs.operations.hideColumns.endColumn }
          ELSE {})

\* C17: column-letter decoding fails with an invalid-format error on any
\* input holding a non-letter character, in batchFormat's colLetterToIndex
\* as well: a non-letter column text never yields an index that is placed
\* in a submitted request.
C17_Original ==
  (sArgs.op = "formatSpreadsheet" /\ \E col \in DecodedColumnTexts : ~AllLetters(col)) =>
    /\ BatchUpdates = <<>>
    /\ (spc = "done") => (sResult.status = "error")

\* The text after an optional leading '#'
HexBody(hex) == IF hex # <<>> /\ Head(hex) = "#" THEN Tail(hex) ELSE hex

\* Exactly 3 or exactly 6 hexadecimal digits after an optional leading '#'
ValidHexText(hex) ==
  /\ Len(HexBody(hex)) \in {3, 6}
  /\ \A i \in 1..Len(HexBody(hex)) : IsHexDigit(HexBody(hex)[i])

\* C18: hexToRgb returns null, never a color, for every input that is not
\* exactly 3 or 6 hexadecimal digits after an optional leading '#': empty
\* text, wrong length, a non-hexadecimal character at any position.
C18_Original ==
  (fnCall.fn = "hexToRgb" /\ ~ValidHexText(fnCall.arg)) => fnResult.isNull

\* The six digits a valid text stands for
SixDigits(hex) ==
  LET b == HexBody(hex)
  IN IF Len(b) = 3 THEN << b[1], b[1], b[2], b[2], b[3], b[3] >> ELSE b

\* The byte written by two hexadecimal digits
ByteOf(hi, lo) == 16 * HexDigitValue(hi) + HexDigitValue(lo)

\* C19: for valid input hexToRgb is insensitive to letter case and to the
\* optional leading '#', a 3-digit input yields the color of the 6-digit
\* input with each digit doubled, and each component is the corresponding
\* byte (0..255) divided by 255; '#FF0000' and 'F00' both yield red = 1,
\* green = 0, blue = 0.
C19_ValidHex ==
  (fnCall.fn = "hexToRgb" /\ ValidHexText(fnCall.arg)) =>
    LET d == SixDigits(fnCall.arg)
    IN /\ fnResult = [isNull |-> FALSE, red |-> ByteOf(d[1], d[2]),
                      green |-> ByteOf(d[3], d[4]), blue |-> ByteOf(d[5], d[6])]
       /\ fnResult.red \in 0..255 /\ fnResult.green \in 0..255 /\ fnResult.blue \in 0..255
       /\ hexToRgb(ToUpperCase(fnCall.arg)) = fnResult
       /\ hexToRgb(ToLowerCase(fnCall.arg)) = fnResult
       /\ hexToRgb(HexBody(fnCall.arg)) = fnResult
       /\ hexToRgb(<<"#">> \o HexBody(fnCall.arg)) = fnResult
       /\ hexToRgb(d) = fnResult
       /\ (fnCall.arg \in { <<"#", "F", "F", "0", "0", "0", "0">>, <<"F", "0", "0">> }) =>
            (fnResult.red = 255 /\ fnResult.green = 0 /\ fnResult.blue = 0)

\* 'f00' yields red = 255/255, green = 0, blue = 0.
C19_Witness ==
  /\ fnCall.fn = "hexToRgb"
  /\ fnCall.arg = <<"f", "0", "0">>
  /\ fnResult = [isNull |-> FALSE, red |-> 255, green |-> 0, blue |-> 0]

\* ========================================================================
\* One batchUpdate per invocation
\* ========================================================================

\* Position of a batchFormat request in build order: cell formats, column
\* widths, row heights, hidden columns, merges, frozen panes.
BuildRank(req) ==
  CASE req.kind = "repeatCell" -> 1
    [] req.kind = "updateDimensionProperties" ->
         (IF req.fields = "hiddenByUser" THEN 4 ELSE IF req.dimension = "COLUMNS" THEN 2 ELSE 3)
    [] req.kind = "mergeCells" -> 5
    [] OTHER -> 6

\* The number of requests batchFormat builds for its operations
BatchFormatSize(ops) ==
  Cardinality({ i \in 1..Len(ops.cellFormats) : cellFormatFields(ops.cellFormats[i]) # <<>> })
  + Len(ops.columnWidths) + Len(ops.rowHeights)
  + (IF ops.hideColumns.given THEN 1 ELSE 0)
  + Len(ops.merges)
  + (IF ops.freezeRows.given \/ ops.freezeColumns.given THEN 1 ELSE 0)

\* C20: each invocation of a Sheets mutating operation issues at most one
\* batchUpdate call, carrying all its requests in build order; if that call
\* fails the failure is reported and no further remote call is made in that
\* invocation.
C20_SingleBatchUpdate ==
  /\ Len(BatchUpdates) <= 1
  /\ \A k \in 1..Len(sCalls) :
       (sCalls[k].call = "batchUpdate") =>
         /\ k = Len(sCalls)
         /\ spc = "done"
         /\ sCalls[k].requests = sRequests
         /\ sCalls[k].requests # <<>>
         /\ (sCalls[k].status = "ok") <=> (sResult.status = "ok")
         /\ (sCalls[k].status # "ok") => (sResult.status = "error")
         /\ (sArgs.op = "formatSpreadsheet") =>
              /\ Len(sCalls[k].requests) = BatchFormatSize(sArgs.operations)
              /\ \A i, j \in 1..Len(sCalls[k].requests) :
                   (i < j) => (BuildRank(sCalls[k].requests[i]) <= BuildRank(sCalls[k].requests[j]))

\* batchFormat with all six kinds of operation: one batchUpdate of six
\* requests, which failed; the failure is reported and it is the last call.
C20_Witness ==
  /\ sArgs.op = "formatSpreadsheet"
  /\ spc = "done"
  /\ sResult.status = "error"
  /\ Len(sCalls) = 2
  /\ sCalls[2].call = "batchUpdate"
  /\ sCalls[2].status # "ok"
  /\ Len(sCalls[2].requests) = 6

\* The error class the failure taxonomy assigns to a remote status.
TaxonomyClass(code) ==
  CASE code = "404" -> "SpreadsheetNotFound"
    [] code = "403" -> "PermissionDenied"
    [] code = "400" -> "InvalidArgument"
    [] code = "503" -> "Unavailable"

\* The last remote call of the invocation
LastCall == sCalls[Len(sCalls)]

\* C21: an invocation whose metadata read or batch submit failed with a
\* remote status ends with an error of the class of that status (404
\* not-found, 403 permission-denied, 400 invalid-argument, 503
\* unavailable, pairwise distinct), never with success; a user error raised
\* inside the operation reaches the caller as raised.
C21_Original ==
  (spc = "done" /\ sCalls # <<>> /\ LastCall.status # "ok") =>
    /\ sResult.status = "error"
    /\ sResult.error = TaxonomyClass(LastCall.status)


\* The requests of the setDropdownValidation invocation, built or submitted.
DropdownRequests ==
  IF BatchUpdates # <<>> THEN BatchUpdates[1].requests ELSE sRequests

\* The rule the claim prescribes; sourceGiven tells whether the invocation
\* counts as one with a sourceRange.
DropdownRuleAsClaimed(sourceGiven) ==
  LET req == DropdownRequests[1]
      src == parseRange(sArgs.sourceRange).a1Range
  IN /\ Len(DropdownRequests) = 1
     /\ Len(BatchUpdates) <= 1
     /\ req.kind = "setDataValidation"
     /\ req.range = parseA1ToGridRange(parseRange(sArgs.range).a1Range, req.range.sheetId).range
     /\ IF sourceGiven
          THEN /\ req.rule.type = "ONE_OF_RANGE"
               /\ Len(req.rule.values) = 1
               /\ Head(req.rule.values[1]) = "="
               /\ Len(req.rule.values[1]) > Len(src)
               /\ SubSeq(req.rule.values[1], Len(req.rule.values[1]) - Len(src) + 1,
                         Len(req.rule.values[1])) = src
          ELSE IF Len(sArgs.values) > 0
            THEN /\ req.rule.type = "ONE_OF_LIST"
                 /\ req.rule.values = sArgs.values
            ELSE req.rule = NoRule

\* The setDropdownValidation invocation has built its request.
DropdownBuilt ==
  /\ sArgs.op = "setDropdownValidation"
  /\ spc = "submit" \/ BatchUpdates # <<>>

RulesOf(sheets, id) ==
  LET entries == { i \in 1..Len(sheets) : sheets[i].sheetId = id }
  IN IF entries = {} THEN <<>> ELSE sheets[CHOOSE i \in entries : TRUE].rules

\* clearConditionalFormatRules awaits its batchUpdate and the sheet's rule
\* list is still the one it read.
ClearAwaitsSubmitUnchanged ==
  /\ sArgs.op = "clearConditionalFormatRules"
  /\ spc = "submit"
  /\ Len(sCalls) = 2 /\ sCalls[2].status = "ok"
  /\ sLocal.sheetId \in UsedSheetIds
  /\ RulesOf(sheetsRemote, sLocal.sheetId) = RulesOf(sCalls[2].response, sLocal.sheetId)

\* C23: when no other writer changed the rule list between the read and
\* the submit, the remote (deleting index i shifts the rules above i down by
\* one) applies the batch of clearConditionalFormatRules request by request
\* with no request at an index >= the current list length, and the sheet
\* is left with zero rules.
C23_ClearLeavesNoRules ==
  ClearAwaitsSubmitUnchanged =>
    LET st == ApplyBatch(sheetsRemote, nextRule, sRequests)
    IN /\ st.ok
       /\ \A k \in 1..Len(sRequests) :
            /\ ApplyBatch(sheetsRemote, nextRule, SubSeq(sRequests, 1, k - 1)).ok
            /\ sRequests[k].index <
                 Len(RulesOf(ApplyBatch(sheetsRemote, nextRule, SubSeq(sRequests, 1, k - 1)).sheets,
                             sLocal.sheetId))
       /\ RulesOf(st.sheets, sLocal.sheetId) = <<>>

\* Three rules were read and the accepted batch of three deletions left the
\* sheet without rules.
C23_Witness ==
  /\ sArgs.op = "clearConditionalFormatRules"
  /\ spc = "done"
  /\ sResult.status = "ok"
  /\ Len(sCalls) = 3
  /\ Len(RulesOf(sCalls[2].response, sLocal.sheetId)) = 3
  /\ Len(sCalls[3].requests) = 3
  /\ sLocal.sheetId \in UsedSheetIds
  /\ RulesOf(sheetsRemote, sLocal.sheetId) = <<>>


\* C24: with textContent given, applying the built requests in their order
\* to the document leaves the inserted text at [s, s + n), the content
\* before s unchanged and the content from the original e on unchanged but
\* shifted by n - (e - s); a text-style request covers exactly the inserted
\* characters.
C24_EditedDocument ==
  (DocsBuilt /\ dArgs.textContent.given) =>
    LET s == dCell.startIndex
        e == dCell.endIndex
        n == Len(dArgs.textContent.chars)
        after == ApplyDocRequests(DocumentBefore, dRequests)
    IN /\ Len(after) = DocumentLength + n - (e - s)
       /\ \A i \in 0..(s - 1) : after[i + 1] = DocumentBefore[i + 1]
       /\ \A k \in 1..n :
            after[s + k] = [from |-> "text", at |-> k, ch |-> dArgs.textContent.chars[k]]
       /\ \A i \in e..(DocumentLength - 1) : after[i + n - (e - s) + 1] = DocumentBefore[i + 1]
       /\ \A r \in 1..Len(dRequests) :
            dRequests[r].kind = "updateTextStyle" =>
              { i \in 0..(Len(after) - 1) : after[i + 1].from = "text" }
                = dRequests[r].startIndex..(dRequests[r].endIndex - 1)

\* Five characters replaced by three, with a text style: the document is
\* two characters shorter and the style covers the three new characters.
C24_Witness ==
  /\ dpc = "done"
  /\ dResult = "Success"
  /\ dCell = [startIndex |-> 10, endIndex |-> 15]
  /\ dArgs.textContent.chars = <<"a", "b", "c">>
  /\ dArgs.textStyle = "set"
  /\ Len(ApplyDocRequests(DocumentBefore, dRequests)) = DocumentLength - 2
  /\ ApplyDocRequests(DocumentBefore, dRequests)[14] = DocumentBefore[16]


\* The deleteDimension requests the tracked sheet has accepted, in order
AcceptedDeletions == sheetsRemote[1].deletions

\* The original row numbers call k addressed: startRow..endRow with
\* startRow = startIndex + 1 and endRow = endIndex
RowsAddressed(k) == (AcceptedDeletions[k].startIndex + 1)..AcceptedDeletions[k].endIndex

\* The calls were issued bottom to top on disjoint bands.
BottomToTop ==
  \A k \in 1..(Len(AcceptedDeletions) - 1) :
    AcceptedDeletions[k + 1].endIndex < AcceptedDeletions[k].startIndex + 1

\* C25: after deleteSpreadsheetRows calls on disjoint bands of original row
\* numbers issued in descending order of startRow, the rows removed are
\* exactly the rows addressed; and whatever calls preceded, deleteRows
\* translates its arguments to startIndex = startRow - 1, endIndex = endRow.
C25_BottomToTop ==
  /\ BottomToTop =>
       SeqToSet(sheetsRemote[1].rows)
         = (1..GridRows) \ UNION { RowsAddressed(k) : k \in 1..Len(AcceptedDeletions) }
  /\ (sArgs.op = "deleteSpreadsheetRows" /\ spc = "submit") =>
       sRequests = << [kind |-> "deleteDimension", sheetId |-> 0, dimension |-> "ROWS",
                       startIndex |-> sArgs.startRow - 1, endIndex |-> sArgs.endRow] >>
  /\ (sArgs.op = "deleteSpreadsheetRows" /\ spc = "done" /\ sResult.status = "ok") =>
       /\ AcceptedDeletions # <<>>
       /\ RowsAddressed(Len(AcceptedDeletions)) = sArgs.startRow..sArgs.endRow

\* Rows 3-5 and then row 1 were deleted by two calls: rows 2, 6 and 7 remain.
C25_Witness ==
  /\ spc = "done" /\ sResult.status = "ok"
  /\ sArgs.startRow = 1 /\ sArgs.endRow = 1
  /\ AcceptedDeletions = << [startIndex |-> 2, endIndex |-> 5], [startIndex |-> 0, endIndex |-> 1] >>
  /\ sheetsRemote[1].rows = <<2, 6, 7>>


\* clearConditionalFormatRules has reported success after submitting a batch.
ClearSucceeded ==
  /\ sArgs.op = "clearConditionalFormatRules"
  /\ spc = "done"
  /\ sResult.status = "ok"
  /\ BatchUpdates # <<>>

\* C27 as stated: when the clear reports success, the sheet holds none of
\* the rules that existed at the time of its read, also when another
\* invocation added or deleted a rule between the read and the submit.
C27_Original ==
  ClearSucceeded =>
    SeqToSet(RulesOf(sheetsRemote, sLocal.sheetId))
      \cap SeqToSet(RulesOf(sCalls[2].response, sLocal.sheetId)) = {}

\* C27: a successful clear that read N rules removes the rules at indices
\* 0..N-1 of the rule list as it is when the batch is applied and keeps the
\* rest; these are the rules it read when the list is unchanged since the
\* read, and then the sheet is left without rules.
C27_ClearRemovesTopN ==
  [][ (/\ sArgs.op = "clearConditionalFormatRules"
       /\ spc = "submit" /\ spc' = "done"
       /\ sResult'.status = "ok") =>
        LET id == sLocal.sheetId
            read == RulesOf(sCalls[2].response, id)
            before == RulesOf(sheetsRemote, id)
            after == RulesOf(sheetsRemote', id)
        IN /\ Len(before) >= Len(read)
           /\ after = SubSeq(before, Len(read) + 1, Len(before))
           /\ (before = read) => (after = <<>>) ]_vars

\* Another invocation added a rule between the read and the submit: the
\* clear succeeded and a rule it had read is still on the sheet.
C27_Witness ==
  /\ ClearSucceeded
  /\ remoteChanges = 1
  /\ Len(RulesOf(sCalls[2].response, sLocal.sheetId)) = 2
  /\ RulesOf(sheetsRemote, sLocal.sheetId) = << 2 >>


\* ------------------------------------------------------------------------
\* The file list updateScriptFile submits
\* ------------------------------------------------------------------------
\* Invocation p has read the content and built the list it submits.
UpdateBuilt(p) == upc[p] = "write"

NamedIn(files, name) == \E i \in 1..Len(files) : files[i].name = name

\* C26: the list submitted keeps every file of another name as it was read,
\* at its position; every file named fileName keeps its name and type and
\* carries the new source; when no file has that name, one file with the
\* given name, fileType and source follows the files read, and only then is
\* the list one longer than the one read; it is never shorter.
C26_SubmittedFiles ==
  \A p \in Invocations :
    UpdateBuilt(p) =>
      LET files == uContent[p]
          out == uFiles[p]
          a == uArgs[p]
      IN /\ Len(out) >= Len(files)
         /\ \A i \in 1..Len(files) :
              /\ out[i].name = files[i].name
              /\ out[i].type = files[i].type
              /\ out[i].source = IF files[i].name = a.fileName THEN a.source ELSE files[i].source
         /\ NamedIn(files, a.fileName) => Len(out) = Len(files)
         /\ ~NamedIn(files, a.fileName) =>
              /\ Len(out) = Len(files) + 1
              /\ out[Len(out)] = ScriptFile(a.fileName, a.fileType, a.source)

\* Two files named Code of different types were read and the invocation
\* names HTML: both carry the new source, each with its own type.
C26_Witness ==
  \E p \in Invocations :
    /\ upc[p] = "write"
    /\ uArgs[p] = [fileName |-> "Code", source |-> "a", fileType |-> "HTML"]
    /\ uFiles[p] = << ScriptFile("appsscript", "JSON", "m0"),
                       ScriptFile("Code", "SERVER_JS", "a"),
                       ScriptFile("Code", "HTML", "a") >>

\* ------------------------------------------------------------------------
\* Interleaved updateScriptFile invocations
\* ------------------------------------------------------------------------
HasSource(files, name, source) ==
  \E i \in 1..Len(files) : files[i].name = name /\ files[i].source = source

BothSucceeded ==
  /\ \A p \in Invocations : upc[p] = "done" /\ uResult[p] = "Success"
  /\ uArgs[1].fileName # uArgs[2].fileName

\* C28 as stated: once two invocations on different file names have both
\* completed successfully, the project holds the new source of both files.
C28_Original ==
  BothSucceeded =>
    \A p \in Invocations : HasSource(scriptRemote, uArgs[p].fileName, uArgs[p].source)

OtherFiles(files, name) == SelectSeq(files, LAMBDA f : f.name # name)

\* C28: a successful write by an invocation replaces the project's files by
\* the files that invocation read, with the new source under its file name:
\* the files of other names are as it read them, whatever was written since
\* its read. Its own update is in effect after the write, and an update
\* of another file name is in effect after it exactly when it was in the
\* content the invocation read.
C28_WriteReplacesContent ==
  [][ \A p \in Invocations :
        (upc[p] = "write" /\ upc'[p] = "done" /\ uResult'[p] = "Success") =>
          /\ NamedIn(scriptRemote', uArgs[p].fileName)
          /\ \A i \in 1..Len(scriptRemote') :
                scriptRemote'[i].name = uArgs[p].fileName =>
                  scriptRemote'[i].source = uArgs[p].source
          /\ OtherFiles(scriptRemote', uArgs[p].fileName)
                = OtherFiles(uContent[p], uArgs[p].fileName) ]_vars

\* Both invocations read before either wrote: both succeeded, and the file
\* Util written by the first writer is gone after the second write.
C28_Witness ==
  /\ BothSucceeded
  /\ uArgs[1].fileName = "Code" /\ uArgs[2].fileName = "Util"
  /\ uContent[1] = uContent[2]
  /\ HasSource(scriptRemote, "Code", uArgs[1].source)
  /\ ~NamedIn(scriptRemote, "Util")

\* ------------------------------------------------------------------------
\* The three range parsers agree
\* ------------------------------------------------------------------------
RangesCompared == fnCall.fn = "gridRanges"

\* The range of the one request a parser submitted
SubmittedRange(plan) == plan.requests[1].range

\* C29: for every bounded rectangle text the ranges submitted by batchFormat
\* for a cell format and for a merge, the range parseA1ToGridRange produces
\* and the range the addConditionalFormatRule tool computes are the same
\* four indexes; for a single-cell text batchFormat and parseA1ToGridRange
\* produce the same one-cell range. Any text one of the parsers accepts as
\* a rectangle or a cell is given the same range by the others that accept
\* this shape.
C29_SameGridRange ==
  RangesCompared =>
    LET o == fnCall.origin
        r == fnResult
    IN /\ o.shape = "rectangle" =>
            /\ r.cellFormat.error = "none" /\ r.merge.error = "none"
            /\ r.helper.ok /\ r.tool.error = "none"
            /\ r.helper.range = [sheetId |-> 0, startRowIndex |-> o.r1 - 1, endRowIndex |-> o.r2,
                                  startColumnIndex |-> o.c1, endColumnIndex |-> o.c2 + 1]
       /\ o.shape = "cell" =>
            /\ r.cellFormat.error = "none" /\ r.merge.error = "none" /\ r.helper.ok
            /\ r.helper.range.endRowIndex = r.helper.range.startRowIndex + 1
            /\ r.helper.range.endColumnIndex = r.helper.range.startColumnIndex + 1
       /\ r.cellFormat.error = r.merge.error
       /\ r.merge.error = "none" =>
            /\ Len(r.cellFormat.requests) = 1 /\ Len(r.merge.requests) = 1
            /\ r.helper.ok
            /\ SubmittedRange(r.cellFormat) = r.helper.range
            /\ SubmittedRange(r.merge) = r.helper.range
       /\ r.tool.error = "none" =>
            /\ r.merge.error = "none"
            /\ SubmittedRange(r.tool) = r.helper.range

\* The lower-case rectangle aa10:ab10 is given the row indexes 9..10 and the
\* column indexes 26..28 by all three parsers.
C29_Witness ==
  /\ RangesCompared
  /\ fnCall.arg = <<"a", "a", "1", "0", ":", "a", "b", "1", "0">>
  /\ SubmittedRange(fnResult.tool)
       = [sheetId |-> 0, startRowIndex |-> 9, endRowIndex |-> 10,
          startColumnIndex |-> 26, endColumnIndex |-> 28]
  /\ SubmittedRange(fnResult.cellFormat) = SubmittedRange(fnResult.tool)
  /\ SubmittedRange(fnResult.merge) = SubmittedRange(fnResult.tool)
  /\ fnResult.helper.range = SubmittedRange(fnResult.tool)

\* ------------------------------------------------------------------------
\* What formatSpreadsheet reports as applied
\* ------------------------------------------------------------------------
FormatReported ==
  /\ sArgs.op = "formatSpreadsheet"
  /\ spc = "done"
  /\ sResult.status = "ok"

RepeatCells(reqs) == SelectSeq(reqs, LAMBDA q : q.kind = "repeatCell")

\* C30: formatSpreadsheet returns its confirmation only if a batchUpdate
\* with at least one request was submitted in the invocation, and the number
\* of cell formats it reports is the number of repeatCell requests of that
\* batch; an invocation that resolves to no request is not reported as
\* applied formatting.
C30_Original ==
  FormatReported =>
    /\ Len(BatchUpdates) = 1
    /\ BatchUpdates[1].requests # <<>>
    /\ sResult.count = Len(RepeatCells(BatchUpdates[1].requests))

====
